---- MODULE Spec2Model ----
(***************************************************************************)
(* Model of the wall-e-mail rule engine and batch coordinator.             *)
(*                                                                         *)
(*   rules/processor.py   RuleCondition, Rule, RuleProcessor               *)
(*   main.py              process_emails (the batch coordinator)           *)
(*   database/emails.py   EmailDatabase (the message store)                *)
(*   services/gmail_service.py  GmailService (the mailbox)                 *)
(*                                                                         *)
(* Time is counted in ticks; one call of process_email or of an evaluate   *)
(* method reads the clock at one tick.                                     *)
(* Strings are sequences of one-character strings, so that lower(),        *)
(* substring search, split() and int() are computed and not assumed.       *)
(* A Python call either returns a value or raises: its outcome is the      *)
(* record [exc |-> <exception class or "none">, ret |-> <value>].          *)
(***************************************************************************)
EXTENDS Integers, Sequences, FiniteSets, TLC

VARIABLES
    now,        \* datetime.now(), in ticks
    config,     \* the rules document load_rules reads
    rules,      \* RuleProcessor.rules
    email,      \* the message dictionary handed to the engine
    entry,      \* the operation the caller invoked
    pc,         \* position of the running operation
    ri,         \* process_email: index of the rule in hand
    ai,         \* apply_actions: index of the action in hand
    calls,      \* collaborator calls made so far, in order
    log,        \* rule evaluations and apply_actions results, in order
    failures,   \* collaborator calls that have failed so far
    mailbox,    \* remote mailbox: message id -> [unread, labels]
    store,      \* emails table: its rows
    result,     \* outcome of the invoked operation, once it has ended
    batches,    \* pages of messages get_emails_batch has still to list
    batch,      \* process_emails: the batch in hand
    bi,         \* process_emails: index of the message in hand
    batch_processed_ids,
    batch_no,   \* batches taken so far
    client,     \* GmailService.client (FALSE: None)
    labels,     \* GmailService.labels: the labels the service knows
    max_results,        \* get_emails_batch: its argument (0: None)
    page_token,         \* get_emails_batch: token of the page to list
    messages,           \* get_emails_batch: the page listed last
    mi,                 \* get_emails_batch: index of the message in hand
    emails_processed,   \* get_emails_batch: messages fetched so far
    batch_emails,       \* get_emails_batch: the batch being filled
    yielded     \* batches get_emails_batch has yielded, in order

engine_rest == <<rules, email, ri, ai, calls, log, failures, mailbox, store, result>>
engine == <<pc, engine_rest>>
coordinator == <<batches, batch, bi, batch_processed_ids, batch_no>>
generator == <<max_results, page_token, messages, mi, emails_processed, batch_emails, yielded>>
service == <<client, labels, generator>>
vars == <<now, entry, config, engine, coordinator, service>>

-----------------------------------------------------------------------------
(* Bounds of the model *)

MaxStrLen == 2          \* longest generated subject / comparison string
MaxNow == 8             \* latest clock reading, in ticks
TicksPerDay == 2        \* clock resolution: ticks in one day

(* timedelta(days=N) raises OverflowError when |N| exceeds this magnitude *)
MaxTimedeltaDays == 999999999

(* datetime.min (0001-01-01) and datetime.max (9999-12-31) in days of the model *)
(* clock, whose day 0 is taken to be 2000-01-01: a datetime subtraction that    *)
(* leaves this range raises OverflowError                                       *)
DatetimeMinDay == -730119
DatetimeMaxDay == 2921939

-----------------------------------------------------------------------------
(* Outcomes of calls *)

Ret(v) == [exc |-> "none", ret |-> v]
Raise(e) == [exc |-> e, ret |-> FALSE]

NoResult == [exc |-> "pending", ret |-> FALSE]

-----------------------------------------------------------------------------
(* Strings *)

Letters == {"a", "A", "b"}

CaseMap == ("A" :> "a") @@ ("B" :> "b") @@ ("D" :> "d") @@ ("Y" :> "y") @@ ("S" :> "s")

LowerChar(c) == IF c \in DOMAIN CaseMap THEN CaseMap[c] ELSE c

\* str.lower()
Lower(s) == [i \in 1..Len(s) |-> LowerChar(s[i])]

\* sub in s
Contains(sub, s) ==
    \E i \in 0..(Len(s) - Len(sub)) : SubSeq(s, i + 1, i + Len(sub)) = sub

RECURSIVE StringsOfLen(_)
StringsOfLen(n) ==
    IF n = 0 THEN {<<>>}
    ELSE {<<c>> \o s : c \in Letters, s \in StringsOfLen(n - 1)}

Strings == UNION {StringsOfLen(n) : n \in 0..MaxStrLen}

Whitespace == {" "}

\* str.split()[0]: the first whitespace-separated word (<<>> when there is none)
RECURSIVE SkipSpaces(_)
SkipSpaces(s) ==
    IF s = <<>> THEN <<>>
    ELSE IF Head(s) \in Whitespace THEN SkipSpaces(Tail(s)) ELSE s

RECURSIVE TakeWord(_)
TakeWord(s) ==
    IF s = <<>> THEN <<>>
    ELSE IF Head(s) \in Whitespace THEN <<>> ELSE <<Head(s)>> \o TakeWord(Tail(s))

FirstWord(s) == TakeWord(SkipSpaces(s))

DigitVal == ("0" :> 0) @@ ("1" :> 1) @@ ("2" :> 2) @@ ("3" :> 3) @@ ("4" :> 4)
            @@ ("5" :> 5) @@ ("6" :> 6) @@ ("7" :> 7) @@ ("8" :> 8) @@ ("9" :> 9)

RECURSIVE DigitsValue(_, _)
DigitsValue(s, acc) ==
    IF s = <<>> THEN acc ELSE DigitsValue(Tail(s), 10 * acc + DigitVal[Head(s)])

IsDigits(s) == Len(s) > 0 /\ \A i \in 1..Len(s) : s[i] \in DOMAIN DigitVal

\* int(word): an optional sign and decimal digits, ValueError otherwise
ParseInt(w) ==
    IF IsDigits(w) THEN Ret(DigitsValue(w, 0))
    ELSE IF Len(w) > 1 /\ w[1] = "-" /\ IsDigits(Tail(w)) THEN Ret(0 - DigitsValue(Tail(w), 0))
    ELSE IF Len(w) > 1 /\ w[1] = "+" /\ IsDigits(Tail(w)) THEN Ret(DigitsValue(Tail(w), 0))
    ELSE Raise("ValueError")

S_days == <<"d", "a", "y", "s">>

-----------------------------------------------------------------------------
(* RuleCondition *)

EMAIL_FIELD_MAPPING ==
    ("from" :> "sender") @@ ("sender" :> "sender") @@ ("to" :> "recipient")
    @@ ("recipient" :> "recipient") @@ ("subject" :> "subject") @@ ("body" :> "body")
    @@ ("received_date" :> "received_date")

StringPredicates == {"contains", "does_not_contain", "equals", "does_not_equal"}
DatePredicates == {"less_than", "greater_than"}

\* faulty variant: the comparison value is not lower-cased
EvaluateStringCaseSensitive(c, field_value) ==
    IF c.predicate = "contains" THEN Ret(Contains(c.value, Lower(field_value)))
    ELSE IF c.predicate = "does_not_contain" THEN Ret(~Contains(c.value, Lower(field_value)))
    ELSE IF c.predicate = "equals" THEN Ret(c.value = Lower(field_value))
    ELSE IF c.predicate = "does_not_equal" THEN Ret(c.value # Lower(field_value))
    ELSE Ret(FALSE)

\* RuleCondition._evaluate_string
EvaluateString(c, field_value) ==
    IF c.predicate = "contains" THEN Ret(Contains(Lower(c.value), Lower(field_value)))
    ELSE IF c.predicate = "does_not_contain" THEN Ret(~Contains(Lower(c.value), Lower(field_value)))
    ELSE IF c.predicate = "equals" THEN Ret(Lower(c.value) = Lower(field_value))
    ELSE IF c.predicate = "does_not_equal" THEN Ret(Lower(c.value) # Lower(field_value))
    ELSE Ret(FALSE)

\* A received_date value: a datetime [kind |-> "datetime", wall, tz] (wall-clock
\* reading in ticks, tz: carries tzinfo) or another object without a tzinfo
\* attribute [kind |-> "other", ...].
Naive(d) == [d EXCEPT !.tz = FALSE]

\* now - timedelta(days=days)
CompareDate(days, t) == t - days * TicksPerDay

\* timedelta(days=days) or the subtraction from now raises OverflowError
Overflows(days, t) ==
    \/ days > MaxTimedeltaDays \/ days < 0 - MaxTimedeltaDays
    \/ CompareDate(days, t) < DatetimeMinDay * TicksPerDay
    \/ CompareDate(days, t) >= (DatetimeMaxDay + 1) * TicksPerDay

\* faulty variant: the comparisons are not strict
EvaluateDateInclusive(c, field_value, t) ==
    IF field_value.kind # "datetime" THEN Ret(FALSE)
    ELSE IF ~Contains(S_days, c.value) THEN Ret(FALSE)
    ELSE LET days == ParseInt(FirstWord(c.value))
             fv == Naive(field_value)
         IN  IF days.exc # "none" THEN Ret(FALSE)
             ELSE IF Overflows(days.ret, t) THEN Raise("OverflowError")
             ELSE IF c.predicate = "less_than" THEN Ret(fv.wall >= CompareDate(days.ret, t))
             ELSE IF c.predicate = "greater_than" THEN Ret(fv.wall <= CompareDate(days.ret, t))
             ELSE Ret(FALSE)

\* RuleCondition._evaluate_date
EvaluateDate(c, field_value, t) ==
    IF field_value.kind # "datetime" THEN Ret(FALSE)           \* AttributeError, caught
    ELSE IF ~Contains(S_days, c.value) THEN Ret(FALSE)
    ELSE LET days == ParseInt(FirstWord(c.value))
             fv == Naive(field_value)
         IN  IF days.exc # "none" THEN Ret(FALSE)              \* ValueError, caught
             ELSE IF Overflows(days.ret, t) THEN Raise("OverflowError")      \* not caught
             ELSE IF c.predicate = "less_than" THEN Ret(fv.wall > CompareDate(days.ret, t))
             ELSE IF c.predicate = "greater_than" THEN Ret(fv.wall < CompareDate(days.ret, t))
             ELSE Ret(FALSE)

\* RuleCondition.evaluate
ConditionEvaluate(c, e, t) ==
    IF c.field \notin DOMAIN EMAIL_FIELD_MAPPING THEN Ret(FALSE)
    ELSE IF EMAIL_FIELD_MAPPING[c.field] \notin DOMAIN e THEN Ret(FALSE)
    ELSE IF c.field = "received_date"
         THEN EvaluateDate(c, e[EMAIL_FIELD_MAPPING[c.field]], t)
         ELSE EvaluateString(c, e[EMAIL_FIELD_MAPPING[c.field]])

-----------------------------------------------------------------------------
(* Rule.evaluate *)

\* the results list built by the loop; the first condition that raises ends it
RECURSIVE ConditionResults(_, _, _)
ConditionResults(conds, e, t) ==
    IF conds = <<>> THEN Ret(<<>>)
    ELSE LET r == ConditionEvaluate(Head(conds), e, t)
         IN  IF r.exc # "none" THEN Raise(r.exc)
             ELSE LET rest == ConditionResults(Tail(conds), e, t)
                  IN  IF rest.exc # "none" THEN rest
                      ELSE Ret(<<r.ret>> \o rest.ret)

AllOf(results) == \A i \in 1..Len(results) : results[i]
AnyOf(results) == \E i \in 1..Len(results) : results[i]

\* faulty variant: no guard for the empty condition list, so all([]) decides
RuleEvaluateNoGuard(rule, e, t) ==
    LET results == ConditionResults(rule.conditions, e, t)
    IN  IF results.exc # "none" THEN Raise(results.exc)
        ELSE IF rule.predicate = "all" THEN Ret(AllOf(results.ret))
        ELSE IF rule.predicate = "any" THEN Ret(AnyOf(results.ret))
        ELSE Ret(FALSE)

\* faulty variant: a predicate that is not "any" is taken as "all"
RuleEvaluateDefaultsToAll(rule, e, t) ==
    IF rule.conditions = <<>> THEN Ret(FALSE)
    ELSE LET results == ConditionResults(rule.conditions, e, t)
         IN  IF results.exc # "none" THEN Raise(results.exc)
             ELSE IF rule.predicate = "any" THEN Ret(AnyOf(results.ret))
             ELSE Ret(AllOf(results.ret))

RuleEvaluate(rule, e, t) ==
    IF rule.conditions = <<>> THEN Ret(FALSE)
    ELSE LET results == ConditionResults(rule.conditions, e, t)
         IN  IF results.exc # "none" THEN Raise(results.exc)
             ELSE IF rule.predicate = "all" THEN Ret(AllOf(results.ret))
             ELSE IF rule.predicate = "any" THEN Ret(AnyOf(results.ret))
             ELSE Ret(FALSE)

-----------------------------------------------------------------------------
(* Collaborators: GmailService (mailbox) and EmailDatabase (store) *)

MaxFailures == 1        \* collaborator calls that may fail in one behaviour

L_inbox == <<"I", "N", "B", "O", "X">>
L_unread == <<"U", "N", "R", "E", "A", "D">>
L_work == <<"W">>

\* a collaborator call as the log keeps it: the service, the method, the message
\* identifier and argument passed, how the call ended (out), and the rule and
\* action of the engine that made it (0 for the coordinator's own calls)
Call(svc, op, id, arg, out, r, a) ==
    [svc |-> svc, op |-> op, id |-> id, arg |-> arg, out |-> out, rule |-> r, action |-> a]

\* the identifier the log files a message under (0 when the key is missing)
EmailId(e) == IF "message_id" \in DOMAIN e THEN e.message_id ELSE 0

Event(ev, r, ok, e) == [ev |-> ev, rule |-> r, ok |-> ok, msg |-> EmailId(e)]

\* ",".join(labels)
RECURSIVE Join(_)
Join(names) ==
    IF names = <<>> THEN <<>>
    ELSE IF Len(names) = 1 THEN Head(names)
    ELSE Head(names) \o <<",">> \o Join(Tail(names))

\* GmailService.mark_as_read: the UNREAD label is removed or added
GmailMarkAsRead(mb, id, mark_read) ==
    IF id \in DOMAIN mb THEN [mb EXCEPT ![id].unread = ~mark_read] ELSE mb

\* GmailService.move_message: the label is added and INBOX removed
GmailMoveMessage(mb, id, label) ==
    IF id \in DOMAIN mb
    THEN [mb EXCEPT ![id].labels = (@ \ {L_inbox}) \cup {label}]
    ELSE mb

\* The emails table is the sequence of its rows, in insertion order; a row holds
\* the message_id column with the other columns (timestamp, which no operation
\* reads, is left out).

\* UPDATE emails SET <column> = <value> WHERE message_id = <id>
Update(st, id, column, value) ==
    [i \in 1..Len(st) |->
        IF st[i].message_id = id THEN [st[i] EXCEPT ![column] = value] ELSE st[i]]

\* EmailDatabase.mark_as_read
DbMarkAsRead(st, id, is_read) == Update(st, id, "is_read", is_read)

\* EmailDatabase.update_labels
DbUpdateLabels(st, id, value) == Update(st, id, "labels", value)

\* the row INSERT OR REPLACE writes: the columns not listed take their defaults
Row(e) ==
    [message_id |-> e.message_id,
     sender |-> e.sender, recipient |-> e.recipient, subject |-> e.subject,
     body |-> e.body, labels |-> e.labels, received_date |-> e.received_date,
     is_read |-> FALSE, processed |-> FALSE]

\* faulty variant: a plain INSERT that the primary key does not stop
RECURSIVE DbAddEmailsBatchAppends(_, _)
DbAddEmailsBatchAppends(st, emails) ==
    IF emails = <<>> THEN st
    ELSE DbAddEmailsBatchAppends(Append(st, Row(Head(emails))), Tail(emails))

\* faulty variant: the row that holds the same message_id keeps its flags
RECURSIVE DbAddEmailsBatchKeepsFlags(_, _)
DbAddEmailsBatchKeepsFlags(st, emails) ==
    IF emails = <<>> THEN st
    ELSE LET e == Head(emails)
             same == SelectSeq(st, LAMBDA r : r.message_id = e.message_id)
             others == SelectSeq(st, LAMBDA r : r.message_id # e.message_id)
             row == IF same = <<>> THEN Row(e)
                    ELSE [Row(e) EXCEPT !.is_read = same[1].is_read,
                                        !.processed = same[1].processed]
         IN  DbAddEmailsBatchKeepsFlags(Append(others, row), Tail(emails))

\* EmailDatabase.add_emails_batch: INSERT OR REPLACE with message_id as primary
\* key deletes the row that holds the same message_id, then inserts the new row
RECURSIVE DbAddEmailsBatch(_, _)
DbAddEmailsBatch(st, emails) ==
    IF emails = <<>> THEN st
    ELSE LET e == Head(emails)
             others == SelectSeq(st, LAMBDA r : r.message_id # e.message_id)
         IN  DbAddEmailsBatch(Append(others, Row(e)), Tail(emails))

\* EmailDatabase.mark_as_processed_batch
RECURSIVE DbMarkAsProcessedBatch(_, _)
DbMarkAsProcessedBatch(st, ids) ==
    IF ids = <<>> THEN st
    ELSE DbMarkAsProcessedBatch(Update(st, Head(ids), "processed", TRUE), Tail(ids))

\* the elements of a list
Elems(seq) == {seq[i] : i \in 1..Len(seq)}

\* faulty variant: the identifier filter is not applied
DbGetProcessedEmailsUnfiltered(st, message_ids) ==
    LET rows == SelectSeq(st, LAMBDA r : r.processed)
    IN  [i \in 1..Len(rows) |-> rows[i].message_id]

\* EmailDatabase.get_processed_emails: SELECT message_id FROM emails WHERE
\* processed = 1, with AND message_id IN (...) when the filter is a non-empty list
DbGetProcessedEmails(st, message_ids) ==
    LET rows == SelectSeq(st, LAMBDA r :
                    /\ r.processed
                    /\ message_ids # <<>> => r.message_id \in Elems(message_ids))
    IN  [i \in 1..Len(rows) |-> rows[i].message_id]

\* the rows of the table that hold this message_id
RowsOf(st, id) == SelectSeq(st, LAMBDA r : r.message_id = id)

-----------------------------------------------------------------------------
(* Rule.apply_actions *)

ActionTypes == {"mark_as_read", "mark_as_unread", "move_message"}

\* the action makes collaborator calls: a branch of the if/elif chain is taken
Dispatches(action) ==
    /\ "type" \in DOMAIN action
    /\ \/ action.type \in {"mark_as_read", "mark_as_unread"}
       \/ action.type = "move_message" /\ "label" \in DOMAIN action

MailboxOp(action) == IF action.type = "move_message" THEN "move_message" ELSE "mark_as_read"
StoreOp(action) == IF action.type = "move_message" THEN "update_labels" ELSE "mark_as_read"

\* faulty variant: mark_as_unread passes True, as mark_as_read does
ActionArgAlwaysRead(action) ==
    IF action.type \in {"mark_as_read", "mark_as_unread"} THEN [read |-> TRUE]
    ELSE [label |-> action.label]

ActionArg(action) ==
    IF action.type = "mark_as_read" THEN [read |-> TRUE]
    ELSE IF action.type = "mark_as_unread" THEN [read |-> FALSE]
    ELSE [label |-> action.label]

MailboxEffect(mb, id, action) ==
    IF action.type = "move_message" THEN GmailMoveMessage(mb, id, action.label)
    ELSE GmailMarkAsRead(mb, id, action.type = "mark_as_read")

StoreEffect(st, id, action) ==
    IF action.type = "move_message" THEN DbUpdateLabels(st, id, action.label)
    ELSE DbMarkAsRead(st, id, action.type = "mark_as_read")

CurrentRule == rules[ri]
CurrentAction == CurrentRule.actions[ai]

\* faulty variant: a failed apply_actions ends the rule loop of process_email
AfterApplyBreaks(ok) ==
    /\ log' = Append(log, Event("apply", ri, ok, email))
    /\ ai' = ai
    /\ IF entry = "apply"
       THEN pc' = "done" /\ result' = Ret(ok) /\ ri' = ri
       ELSE pc' = "rule" /\ result' = result
            /\ ri' = IF ok THEN ri + 1 ELSE Len(rules) + 1

\* faulty variant: the first rule that matches is the only one to fire
AfterApplyFirstMatch(ok) ==
    /\ log' = Append(log, Event("apply", ri, ok, email))
    /\ ai' = ai
    /\ IF entry = "apply"
       THEN pc' = "done" /\ result' = Ret(ok) /\ ri' = ri
       ELSE pc' = "rule" /\ result' = result /\ ri' = Len(rules) + 1

\* apply_actions returns ok: to its caller when called directly, else back in
\* the rule loop of process_email, which logs the result and goes on
AfterApply(ok) ==
    /\ log' = Append(log, Event("apply", ri, ok, email))
    /\ ai' = ai
    /\ IF entry = "apply"
       THEN pc' = "done" /\ result' = Ret(ok) /\ ri' = ri
       ELSE pc' = "rule" /\ result' = result /\ ri' = ri + 1

\* faulty variant: an action no branch takes ends the call with False
ApplySkipAborts ==
    /\ pc = "actions" /\ ai <= Len(CurrentRule.actions)
    /\ "type" \in DOMAIN CurrentAction /\ ~Dispatches(CurrentAction)
    /\ AfterApply(FALSE)
    /\ UNCHANGED <<now, entry, config, service, rules, email, calls, failures, mailbox, store, coordinator>>

\* an action of unrecognized type, or a move_message without label: no branch
ApplySkip ==
    /\ pc = "actions" /\ ai <= Len(CurrentRule.actions)
    /\ "type" \in DOMAIN CurrentAction /\ ~Dispatches(CurrentAction)
    /\ ai' = ai + 1
    /\ UNCHANGED <<now, entry, config, service, rules, email, pc, ri, calls, log, failures, mailbox, store,
                   result, coordinator>>

\* action["type"] or email["message_id"] is missing: KeyError, caught at line 136
ApplyKeyError ==
    /\ pc = "actions" /\ ai <= Len(CurrentRule.actions)
    /\ \/ "type" \notin DOMAIN CurrentAction
       \/ Dispatches(CurrentAction) /\ "message_id" \notin DOMAIN email
    /\ AfterApply(FALSE)
    /\ UNCHANGED <<now, entry, config, service, rules, email, calls, failures, mailbox, store, coordinator>>

\* the mailbox call of the action: it succeeds, reports failure or raises
ApplyMailbox ==
    /\ pc = "actions" /\ ai <= Len(CurrentRule.actions)
    /\ Dispatches(CurrentAction) /\ "message_id" \in DOMAIN email
    /\ \E out \in {"ok", "false", "raise"} :
          /\ out # "ok" => failures < MaxFailures
          /\ failures' = IF out = "ok" THEN failures ELSE failures + 1
          /\ calls' = Append(calls, Call("mailbox", MailboxOp(CurrentAction),
                                         email.message_id, ActionArg(CurrentAction), out, ri, ai))
          /\ mailbox' = IF out = "ok"
                        THEN MailboxEffect(mailbox, email.message_id, CurrentAction)
                        ELSE mailbox
          /\ IF out = "raise"
             THEN AfterApply(FALSE)
             ELSE pc' = "store" /\ UNCHANGED <<ri, ai, log, result>>
    /\ UNCHANGED <<now, entry, config, service, rules, email, store, coordinator>>

\* faulty variant: a store call that raises is passed over and the loop goes on
ApplyStoreGoesOn ==
    /\ pc = "store"
    /\ \E out \in {"ok", "raise"} :
          /\ out # "ok" => failures < MaxFailures
          /\ failures' = IF out = "ok" THEN failures ELSE failures + 1
          /\ calls' = Append(calls, Call("store", StoreOp(CurrentAction),
                                         email.message_id, ActionArg(CurrentAction), out, ri, ai))
          /\ store' = IF out = "ok"
                      THEN StoreEffect(store, email.message_id, CurrentAction)
                      ELSE store
          /\ pc' = "actions" /\ ai' = ai + 1 /\ UNCHANGED <<ri, log, result>>
    /\ UNCHANGED <<now, entry, config, service, rules, email, mailbox, coordinator>>

\* the store call of the same action
ApplyStore ==
    /\ pc = "store"
    /\ \E out \in {"ok", "raise"} :
          /\ out # "ok" => failures < MaxFailures
          /\ failures' = IF out = "ok" THEN failures ELSE failures + 1
          /\ calls' = Append(calls, Call("store", StoreOp(CurrentAction),
                                         email.message_id, ActionArg(CurrentAction), out, ri, ai))
          /\ store' = IF out = "ok"
                      THEN StoreEffect(store, email.message_id, CurrentAction)
                      ELSE store
          /\ IF out = "raise"
             THEN AfterApply(FALSE)
             ELSE pc' = "actions" /\ ai' = ai + 1 /\ UNCHANGED <<ri, log, result>>
    /\ UNCHANGED <<now, entry, config, service, rules, email, mailbox, coordinator>>

\* the loop is over: return True
ApplyReturn ==
    /\ pc = "actions" /\ ai > Len(CurrentRule.actions)
    /\ AfterApply(TRUE)
    /\ UNCHANGED <<now, entry, config, service, rules, email, calls, failures, mailbox, store, coordinator>>

-----------------------------------------------------------------------------
(* RuleProcessor.load_rules *)

\* every key lines 153-162 read is in the rule object and in its conditions
WellFormedRule(rule_data) ==
    /\ {"name", "conditions", "predicate", "actions"} \subseteq DOMAIN rule_data
    /\ \A i \in 1..Len(rule_data.conditions) :
          {"field", "predicate", "value"} \subseteq DOMAIN rule_data.conditions[i]

\* Rule(name, [RuleCondition(field, predicate, value), ...], predicate, actions)
MakeRule(rule_data) ==
    [name |-> rule_data.name,
     conditions |-> [i \in 1..Len(rule_data.conditions) |->
                        [field |-> rule_data.conditions[i].field,
                         predicate |-> rule_data.conditions[i].predicate,
                         value |-> rule_data.conditions[i].value]],
     predicate |-> rule_data.predicate,
     actions |-> rule_data.actions]

\* the loop of lines 153-164: each rule is appended to self.rules as soon as it
\* is built; a missing key raises, and the except clause of line 165 only logs
RECURSIVE LoadFrom(_, _)
LoadFrom(rules_data, loaded) ==
    IF rules_data = <<>> THEN loaded
    ELSE IF WellFormedRule(Head(rules_data))
         THEN LoadFrom(Tail(rules_data), Append(loaded, MakeRule(Head(rules_data))))
         ELSE loaded

\* load_rules on a document: one that cannot be read or parsed, or has no
\* "rules" key, raises before the loop
LoadRules(document) ==
    IF "rules" \notin DOMAIN document THEN <<>> ELSE LoadFrom(document.rules, <<>>)

-----------------------------------------------------------------------------
(* RuleProcessor.process_email *)

\* faulty variant: the date comparison writes the naive datetime back into the
\* message
EvaluateRuleStripsTz ==
    /\ pc = "rule" /\ ri <= Len(rules)
    /\ LET r == RuleEvaluate(CurrentRule, email, now)
       IN  IF r.exc # "none"
           THEN /\ pc' = "handler"
                /\ log' = Append(log, Event("raise", ri, FALSE, email))
                /\ UNCHANGED <<ri, ai>>
           ELSE /\ log' = Append(log, Event("evaluate", ri, r.ret, email))
                /\ IF r.ret
                   THEN pc' = "actions" /\ ai' = 1 /\ ri' = ri
                   ELSE pc' = "rule" /\ ai' = ai /\ ri' = ri + 1
    /\ email' = IF "received_date" \in DOMAIN email
                THEN [email EXCEPT !.received_date = Naive(@)]
                ELSE email
    /\ UNCHANGED <<now, entry, config, service, rules, calls, failures, mailbox, store, result,
                   coordinator>>

\* one turn of the rule loop: rule.evaluate(email), then apply_actions if it matched
EvaluateRule ==
    /\ pc = "rule" /\ ri <= Len(rules)
    /\ LET r == RuleEvaluate(CurrentRule, email, now)
       IN  IF r.exc # "none"
           THEN /\ pc' = "handler"
                /\ log' = Append(log, Event("raise", ri, FALSE, email))
                /\ UNCHANGED <<ri, ai>>
           ELSE /\ log' = Append(log, Event("evaluate", ri, r.ret, email))
                /\ IF r.ret
                   THEN pc' = "actions" /\ ai' = 1 /\ ri' = ri
                   ELSE pc' = "rule" /\ ai' = ai /\ ri' = ri + 1
    /\ UNCHANGED <<now, entry, config, service, rules, email, calls, failures, mailbox, store, result,
                   coordinator>>

\* every rule had its turn: return True
ProcessReturn ==
    /\ pc = "rule" /\ ri > Len(rules)
    /\ pc' = "returned" /\ result' = Ret(TRUE)
    /\ UNCHANGED <<now, entry, config, service, rules, email, ri, ai, calls, log, failures, mailbox, store,
                   coordinator>>

\* except Exception: the log line reads email['message_id'], then return False
ProcessHandler ==
    /\ pc = "handler"
    /\ pc' = "returned"
    /\ result' = IF "message_id" \in DOMAIN email THEN Ret(FALSE) ELSE Raise("KeyError")
    /\ UNCHANGED <<now, entry, config, service, rules, email, ri, ai, calls, log, failures, mailbox, store,
                   coordinator>>

-----------------------------------------------------------------------------
(* process_emails: the batch coordinator *)

RECURSIVE Ids(_)
Ids(emails) ==
    IF emails = <<>> THEN <<>> ELSE <<Head(emails).message_id>> \o Ids(Tail(emails))

\* email["labels"] = ",".join(email["labels"]), for every message of the batch
Normalized(emails) == [i \in 1..Len(emails) |-> [emails[i] EXCEPT !.labels = Join(@)]]

\* header_data.get(name, ""): the headers are keyed by lower-cased name
HeaderGet(headers, name) == IF name \in DOMAIN headers THEN headers[name] ELSE <<>>

\* GmailService._get_email_data on a message the API returned: the dictionary
\* built from its headers, body and labelIds. A Date header is kept as the
\* datetime it denotes; parsedate_to_datetime raises on a missing one (read as
\* ""), and only HttpError is caught there.
GetEmailData(raw) ==
    IF "date" \notin DOMAIN raw.headers
    THEN Raise("ValueError")
    ELSE Ret([message_id |-> raw.id,
              sender |-> HeaderGet(raw.headers, "from"),
              recipient |-> HeaderGet(raw.headers, "to"),
              subject |-> HeaderGet(raw.headers, "subject"),
              body |-> raw.body,
              labels |-> raw.labelIds,
              received_date |-> raw.headers["date"],
              is_read |-> \A i \in 1..Len(raw.labelIds) : raw.labelIds[i] # L_unread])

\* the page without its f-th message (f = 0: the whole page)
Skip(page, f) ==
    IF f = 0 THEN page
    ELSE [i \in 1..(Len(page) - 1) |-> IF i < f THEN page[i] ELSE page[i + 1]]

\* GmailService(), EmailDatabase() and RuleProcessor() at lines 13-15: all are
\* built and the rules are loaded, or the Gmail client could not be built
\* (client is None and get_emails_batch yields nothing), or the constructor of
\* a collaborator raises and process_emails re-raises
Construct ==
    /\ pc = "init"
    /\ \E out \in {"ok", "noclient", "raise"} :
          /\ out # "ok" => failures < MaxFailures
          /\ failures' = IF out = "ok" THEN failures ELSE failures + 1
          /\ log' = IF out = "ok" THEN log ELSE Append(log, Event("construct", 0, FALSE, <<>>))
          /\ pc' = IF out = "ok" THEN "fetch" ELSE IF out = "noclient" THEN "closed" ELSE "raised"
          /\ rules' = IF out = "raise" THEN rules ELSE LoadRules(config)
          /\ client' = (out = "ok")
    /\ UNCHANGED <<now, entry, config, labels, generator, email, ri, ai, calls, mailbox, store,
                   result, coordinator>>

\* for batch in get_emails_batch(...): the generator lists the next page and
\* fetches its messages. An HttpError of the list call ends the generator; an
\* HttpError of one message's get call drops that message; any other exception,
\* of the list call or while a message is decoded, leaves the generator and
\* process_emails, which logs it and re-raises (lines 60-62). A page that
\* gives no message yields nothing and the next page is listed.
TakeBatch ==
    /\ pc = "fetch" /\ batches # <<>>
    /\ \E out \in {"ok", "HttpError", "raise"} : \E f \in 0..Len(Head(batches)) :
          /\ out # "ok" => failures < MaxFailures /\ f = 0
          /\ f # 0 => failures < MaxFailures
          /\ failures' = IF out = "ok" /\ f = 0 THEN failures ELSE failures + 1
          /\ LET fetched == Skip(Head(batches), f)
                 decoded == [i \in 1..Len(fetched) |-> GetEmailData(fetched[i])]
                 undecodable == \E i \in 1..Len(fetched) : decoded[i].exc # "none"
             IN  IF out = "HttpError"
                 THEN /\ pc' = "closed"
                      /\ log' = Append(log, Event("list", 0, FALSE, <<>>))
                      /\ UNCHANGED <<batch, batches>>
                 ELSE IF out = "raise" \/ undecodable
                 THEN /\ pc' = "raised"
                      /\ log' = IF out = "raise"
                                THEN Append(log, Event("list", 0, FALSE, <<>>))
                                ELSE log
                      /\ UNCHANGED <<batch, batches>>
                 ELSE /\ batches' = Tail(batches)
                      /\ log' = log
                      /\ IF fetched = <<>>
                         THEN pc' = "fetch" /\ batch' = batch
                         ELSE pc' = "persist"
                              /\ batch' = [i \in 1..Len(fetched) |-> decoded[i].ret]
    /\ UNCHANGED <<now, entry, config, service, rules, email, ri, ai, calls, mailbox, store,
                   result, bi, batch_processed_ids, batch_no>>

\* lines 27-34: labels are joined, the batch is stored in one call
PersistBatch ==
    /\ pc = "persist"
    /\ batch' = Normalized(batch)
    /\ \E out \in {"ok", "raise"} :
          /\ out # "ok" => failures < MaxFailures
          /\ failures' = IF out = "ok" THEN failures ELSE failures + 1
          /\ calls' = Append(calls, Call("store", "add_emails_batch", 0,
                                         [ids |-> Ids(batch)], out, 0, 0))
          /\ IF out = "ok"
             THEN /\ store' = DbAddEmailsBatch(store, Normalized(batch))
                  /\ pc' = "message" /\ bi' = 1 /\ batch_processed_ids' = <<>>
             ELSE /\ pc' = "fetch"                         \* line 56: continue
                  /\ UNCHANGED <<store, bi, batch_processed_ids>>
    /\ UNCHANGED <<now, entry, config, service, rules, email, ri, ai, log, mailbox, result, batches, batch_no>>

\* faulty variant: the message is marked processed as its processing starts
StartMessageMarks ==
    /\ pc = "message" /\ bi <= Len(batch)
    /\ email' = batch[bi] /\ ri' = 1 /\ pc' = "rule"
    /\ calls' = Append(calls, Call("store", "mark_as_processed_batch", 0,
                                   [ids |-> <<batch[bi].message_id>>], "ok", 0, 0))
    /\ store' = DbMarkAsProcessedBatch(store, <<batch[bi].message_id>>)
    /\ UNCHANGED <<now, entry, config, service, rules, ai, log, failures, mailbox, result, coordinator>>

\* line 38: rule_processor.process_email(email, email_service, email_db)
StartMessage ==
    /\ pc = "message" /\ bi <= Len(batch)
    /\ email' = batch[bi] /\ ri' = 1 /\ pc' = "rule"
    /\ UNCHANGED <<now, entry, config, service, rules, ai, calls, log, failures, mailbox, store, result,
                   coordinator>>

\* faulty variant: a message that was not processed ends the batch
CollectMessageAborts ==
    /\ entry = "run" /\ pc = "returned"
    /\ LET ok == result.exc = "none" /\ result.ret
       IN  /\ batch_processed_ids' =
                 IF ok THEN Append(batch_processed_ids, email.message_id)
                 ELSE batch_processed_ids
           /\ log' = Append(log, Event("process", 0, ok, email))
           /\ IF ok THEN bi' = bi + 1 /\ pc' = "message" ELSE bi' = bi /\ pc' = "fetch"
    /\ UNCHANGED <<now, entry, config, service, rules, email, ri, ai, calls, failures, mailbox, store,
                   result, batches, batch, batch_no>>

\* lines 38-45: the identifier is kept when process_email returned True; when
\* it raised, the except clause logs email['message_id'] and the loop goes on
\* (without the identifier the log line raises KeyError, which the except
\* clause of the batch at line 56 takes: the batch is given up)
CollectMessage ==
    /\ entry = "run" /\ pc = "returned"
    /\ LET ok == result.exc = "none" /\ result.ret
       IN  /\ batch_processed_ids' =
                 IF ok THEN Append(batch_processed_ids, email.message_id)
                 ELSE batch_processed_ids
           /\ log' = Append(log, Event("process", 0, ok, email))
           /\ IF result.exc # "none" /\ "message_id" \notin DOMAIN email
              THEN bi' = bi /\ pc' = "fetch"
              ELSE bi' = bi + 1 /\ pc' = "message"
    /\ UNCHANGED <<now, entry, config, service, rules, email, ri, ai, calls, failures, mailbox, store,
                   result, batches, batch, batch_no>>

\* lines 46-54: the batch is over, its processed identifiers are marked in one call
MarkProcessed ==
    /\ pc = "message" /\ bi > Len(batch)
    /\ batch_no' = batch_no + 1
    /\ pc' = "fetch"
    /\ IF batch_processed_ids = <<>>
       THEN UNCHANGED <<calls, store, failures>>
       ELSE \E out \in {"ok", "raise"} :
               /\ out # "ok" => failures < MaxFailures
               /\ failures' = IF out = "ok" THEN failures ELSE failures + 1
               /\ calls' = Append(calls, Call("store", "mark_as_processed_batch", 0,
                                              [ids |-> batch_processed_ids], out, 0, 0))
               /\ store' = IF out = "ok"
                           THEN DbMarkAsProcessedBatch(store, batch_processed_ids)
                           ELSE store
    /\ UNCHANGED <<now, entry, config, service, rules, email, ri, ai, log, mailbox, result, batches, batch,
                   bi, batch_processed_ids>>

\* the generator is exhausted; finally: email_db.close(); process_emails returns
Finish ==
    /\ pc = "fetch" /\ batches = <<>>
    /\ pc' = "closed"
    /\ UNCHANGED <<now, entry, config, service, engine_rest, coordinator>>

-----------------------------------------------------------------------------
(* Inputs: actions, rules and messages the behaviours are run on *)

MaxActions == 2         \* longest generated action list
MaxRules == 2           \* longest generated rule list
MaxMessages == 3        \* messages the mailbox delivers in one run

A_read == [type |-> "mark_as_read"]
A_unread == [type |-> "mark_as_unread"]
A_move == [type |-> "move_message", label |-> L_work]
A_move_nolabel == [type |-> "move_message"]
A_unknown == [type |-> "archive"]
A_notype == [label |-> L_work]

ActionCatalog == {A_read, A_unread, A_move, A_move_nolabel, A_unknown, A_notype}

RECURSIVE SeqsOfLen(_, _)
SeqsOfLen(S, n) ==
    IF n = 0 THEN {<<>>}
    ELSE {<<x>> \o s : x \in S, s \in SeqsOfLen(S, n - 1)}

SeqsUpTo(S, n) == UNION {SeqsOfLen(S, k) : k \in 0..n}

Cond(f, p, v) == [field |-> f, predicate |-> p, value |-> v]
MkRule(n, cs, p, as) == [name |-> n, conditions |-> cs, predicate |-> p, actions |-> as]

V_overflow == <<"1", "0", "0", "0", "0", "0", "0", "0", "0", "0", " ">> \o S_days
V_range == <<"8", "0", "0", "0", "0", "0", " ">> \o S_days

R_read == MkRule("read", <<Cond("subject", "contains", <<"a">>)>>, "all", <<A_read>>)
R_move == MkRule("move", <<Cond("from", "equals", <<"b">>), Cond("subject", "contains", <<"B">>)>>,
                 "any", <<A_move, A_unread>>)
R_skip == MkRule("skip", <<Cond("subject", "does_not_equal", <<>>)>>, "all",
                 <<A_unknown, A_read>>)
R_notype == MkRule("notype", <<Cond("subject", "contains", <<"a">>)>>, "any",
                   <<A_unread, A_notype, A_read>>)
R_overflow == MkRule("overflow", <<Cond("received_date", "less_than", V_overflow)>>, "all",
                     <<A_read>>)

R_old == MkRule("old", <<Cond("received_date", "greater_than", <<"1", " ">> \o S_days)>>, "all",
                <<A_move>>)

R_none == MkRule("none", <<Cond("subject", "contains", <<"a">>)>>, "none", <<A_read>>)
R_nolabel == MkRule("nolabel", <<Cond("subject", "contains", <<"a">>)>>, "all",
                    <<A_move_nolabel, A_read>>)

RuleCatalog == {R_read, R_move, R_skip, R_notype, R_overflow, R_old, R_none, R_nolabel}

Subjects == <<(<<"a">>), (<<"b">>), (<<"A", "b">>), (<<>>)>>

\* the message dictionary _get_email_data builds for the i-th message of the mailbox
Message(i) ==
    [message_id |-> i,
     sender |-> <<"a">>, recipient |-> <<"b">>,
     subject |-> Subjects[((i - 1) % Len(Subjects)) + 1],
     body |-> <<>>,
     labels |-> <<L_inbox, L_unread>>,
     received_date |-> [kind |-> "datetime", wall |-> i, tz |-> TRUE],
     is_read |-> FALSE]

\* the message as the Gmail API returns it, from which _get_email_data builds
\* Message(i); dated = FALSE: the message carries no Date header
Raw(i, dated) ==
    LET h == [name \in {"from", "to", "subject"} |->
                 IF name = "from" THEN <<"a">>
                 ELSE IF name = "to" THEN <<"b">>
                 ELSE Subjects[((i - 1) % Len(Subjects)) + 1]]
    IN  [id |-> i,
         headers |-> IF dated
                     THEN h @@ ("date" :> [kind |-> "datetime", wall |-> i, tz |-> TRUE])
                     ELSE h,
         body |-> <<>>,
         labelIds |-> <<L_inbox, L_unread>>]

\* the same dictionary without its "message_id" key
Without(e, k) == [x \in DOMAIN e \ {k} |-> e[x]]

\* the pages the messages.list calls return for a mailbox of n messages, k to
\* a page; message u (if any) has no Date header
RECURSIVE RawPages(_, _, _, _)
RawPages(from, n, k, u) ==
    IF from > n THEN <<>>
    ELSE LET last == IF from + k - 1 > n THEN n ELSE from + k - 1
         IN  <<[i \in 1..(last - from + 1) |-> Raw(from + i - 1, from + i - 1 # u)]>>
             \o RawPages(last + 1, n, k, u)

MailboxOf(n) == [i \in 1..n |-> [unread |-> TRUE, labels |-> {L_inbox, L_unread}]]

\* page_token = None, and a list response without "nextPageToken"
NoToken == 0

\* messages.list(pageToken = token) on a mailbox whose listing is these pages:
\* no token lists the first page; the response has no "messages" key when
\* nothing is listed, and a "nextPageToken" when a further page exists
ListMessages(pages, token) ==
    LET p == IF token = NoToken THEN 1 ELSE token
    IN  IF p > Len(pages) \/ pages[p] = <<>>
        THEN [nextPageToken |-> NoToken]
        ELSE [messages |-> pages[p],
              nextPageToken |-> IF p < Len(pages) THEN p + 1 ELSE NoToken]

\* get_emails_batch is not running
NoFetch ==
    /\ max_results = 0 /\ page_token = NoToken /\ messages = [nextPageToken |-> NoToken]
    /\ mi = 0 /\ emails_processed = 0 /\ batch_emails = <<>> /\ yielded = <<>>

Quiet ==
    /\ ri = 0 /\ ai = 0 /\ calls = <<>> /\ log = <<>> /\ failures = 0
    /\ result = NoResult

\* no run of process_emails: the rules in hand are the ones that were loaded
NoRun ==
    /\ config = [rules |-> rules]
    /\ batches = <<>> /\ batch = <<>> /\ bi = 0 /\ batch_processed_ids = <<>> /\ batch_no = 1
    /\ client = TRUE /\ labels = <<>> /\ NoFetch

-----------------------------------------------------------------------------
(* Spec: one run of process_emails *)

RunRuleSets == {<<>>, <<R_read>>, <<R_read, R_move>>, <<R_overflow, R_read>>, <<R_notype, R_skip>>}

Init ==
    /\ entry = "run" /\ pc = "init"
    /\ now = MaxNow
    /\ \E rs \in RunRuleSets : config = [rules |-> rs]
    /\ rules = <<>>
    /\ \E n \in 0..MaxMessages : \E k \in 1..MaxMessages : \E u \in 0..n :
          /\ k <= n \/ k = 1
          /\ batches = RawPages(1, n, k, u)
          /\ mailbox = MailboxOf(n)
    /\ store = <<>>
    /\ email = <<>>
    /\ ri = 0 /\ ai = 0 /\ calls = <<>> /\ log = <<>> /\ failures = 0 /\ result = NoResult
    /\ batch = <<>> /\ bi = 0 /\ batch_processed_ids = <<>> /\ batch_no = 1
    /\ client = FALSE /\ labels = <<>> /\ NoFetch

Next ==
    \/ Construct \/ TakeBatch \/ PersistBatch \/ StartMessage \/ CollectMessage \/ MarkProcessed \/ Finish
    \/ EvaluateRule \/ ProcessReturn \/ ProcessHandler
    \/ ApplySkip \/ ApplyKeyError \/ ApplyMailbox \/ ApplyStore \/ ApplyReturn

Spec == Init /\ [][Next]_vars

-----------------------------------------------------------------------------
(* SpecEngine: process_email called on one message, as the tests call it *)

EngineEmails == {Message(i) : i \in 1..3} \cup {Without(Message(i), "message_id") : i \in 1..3}

InitEngine ==
    /\ entry = "process" /\ pc = "rule"
    /\ now = MaxNow
    /\ rules \in SeqsUpTo(RuleCatalog, MaxRules)
    /\ email \in EngineEmails
    /\ mailbox = MailboxOf(3)
    /\ store = DbAddEmailsBatch(<<>>, Normalized([i \in 1..3 |-> Message(i)]))
    /\ ri = 1 /\ ai = 0 /\ calls = <<>> /\ log = <<>> /\ failures = 0 /\ result = NoResult
    /\ NoRun

NextEngine ==
    \/ EvaluateRule \/ ProcessReturn \/ ProcessHandler
    \/ ApplySkip \/ ApplyKeyError \/ ApplyMailbox \/ ApplyStore \/ ApplyReturn

SpecEngine == InitEngine /\ [][NextEngine]_vars

-----------------------------------------------------------------------------
(* SpecApply: Rule.apply_actions called on one message *)

InitApply ==
    /\ entry = "apply" /\ pc = "actions"
    /\ now = MaxNow
    /\ \E as \in SeqsUpTo(ActionCatalog, MaxActions) :
          rules = <<MkRule("rule", <<>>, "all", as)>>
    /\ email \in {Message(1), Without(Message(1), "message_id")}
    /\ mailbox = MailboxOf(1)
    /\ store = DbAddEmailsBatch(<<>>, Normalized(<<Message(1)>>))
    /\ ri = 1 /\ ai = 1 /\ calls = <<>> /\ log = <<>> /\ failures = 0 /\ result = NoResult
    /\ NoRun

NextApply ==
    \/ ApplySkip \/ ApplyKeyError \/ ApplyMailbox \/ ApplyStore \/ ApplyReturn

SpecApply == InitApply /\ [][NextApply]_vars

-----------------------------------------------------------------------------
(* SpecCond: RuleCondition.evaluate called on one message *)

TheCondition == rules[1].conditions[1]

Fields == DOMAIN EMAIL_FIELD_MAPPING \cup {"cc"}
Predicates == StringPredicates \cup DatePredicates \cup {"matches"}

StringKeys == {"sender", "subject"}

\* comparison values of date conditions: "<N> days" and malformed relatives
DaysValue(w) == w \o <<" ">> \o S_days

DateValues ==
    {DaysValue(<<"1">>), DaysValue(<<"2">>), DaysValue(<<"3">>), DaysValue(<<"-", "1">>),
     <<" ">> \o DaysValue(<<"2">>), DaysValue(<<"2">>) \o <<"x">>, <<"2">> \o S_days,
     DaysValue(<<"x">>), S_days, <<"2", " ", "d">>, <<>>, V_overflow, V_range}

Datetimes == [kind : {"datetime"}, wall : 0..MaxNow, tz : BOOLEAN]
NotADatetime == [kind |-> "other", wall |-> 0, tz |-> FALSE]

\* the condition c is under test on the message e
CondInput(c, e) ==
    /\ rules = <<MkRule("condition", <<c>>, "all", <<>>)>>
    /\ email = e

\* a string field under test, or a received_date under test
InitCond ==
    /\ entry = "condition" /\ pc = "call"
    /\ now \in (MaxNow - 2)..MaxNow
    /\ \/ \E f \in Fields, p \in Predicates, v \in Strings, k \in StringKeys, s \in Strings :
             CondInput(Cond(f, p, v), (k :> s))
       \/ \E p \in Predicates, v \in DateValues, d \in Datetimes \cup {NotADatetime} :
             CondInput(Cond("received_date", p, v), ("received_date" :> d))
    /\ mailbox = <<>> /\ store = <<>>
    /\ Quiet /\ NoRun

CallConditionEvaluate ==
    /\ entry = "condition" /\ pc = "call"
    /\ result' = ConditionEvaluate(TheCondition, email, now)
    /\ pc' = "done"
    /\ UNCHANGED <<now, entry, config, service, rules, email, ri, ai, calls, log, failures, mailbox, store,
                   coordinator>>

NextCond == CallConditionEvaluate

SpecCond == InitCond /\ [][NextCond]_vars

-----------------------------------------------------------------------------
(* SpecRule: Rule.evaluate called on one message *)

MaxConds == 2           \* longest generated condition list

ConditionCatalog ==
    {Cond("subject", "contains", <<"a">>),
     Cond("subject", "equals", <<"B">>),
     Cond("from", "does_not_contain", <<"a">>),
     Cond("received_date", "greater_than", DaysValue(<<"1">>)),
     Cond("cc", "contains", <<>>),
     Cond("received_date", "less_than", V_overflow)}

CombinationPredicates == {"all", "any", "none"}

InitRule ==
    /\ entry = "rule" /\ pc = "call"
    /\ now = MaxNow
    /\ \E cs \in SeqsUpTo(ConditionCatalog, MaxConds) : \E p \in CombinationPredicates :
          rules = <<MkRule("rule", cs, p, <<>>)>>
    /\ email \in {Message(i) : i \in 1..Len(Subjects)}
    /\ mailbox = <<>> /\ store = <<>>
    /\ Quiet /\ NoRun

CallRuleEvaluate ==
    /\ entry = "rule" /\ pc = "call"
    /\ result' = RuleEvaluate(rules[1], email, now)
    /\ pc' = "done"
    /\ UNCHANGED <<now, entry, config, service, rules, email, ri, ai, calls, log, failures, mailbox, store,
                   coordinator>>

NextRule == CallRuleEvaluate

SpecRule == InitRule /\ [][NextRule]_vars

-----------------------------------------------------------------------------
(* Properties of Rule.evaluate (SpecRule) *)

TheRule == rules[1]

\* what each condition of the rule under test gives on the message
ResultOf(i) == ConditionEvaluate(TheRule.conditions[i], email, now)
AllReturn == \A i \in 1..Len(TheRule.conditions) : ResultOf(i).exc = "none"

\* C5: Rule.evaluate combines the condition results: with "all" it is true iff
\* the list is non-empty and every condition is true, with "any" iff at least
\* one condition is true, and with an empty list it is false whatever the
\* predicate. (Stated over the lists whose conditions all return a result.)
C5_EvaluateCombines ==
    (entry = "rule" /\ pc = "done" /\ AllReturn) =>
        /\ result.exc = "none"
        /\ TheRule.predicate = "all" =>
              (result.ret <=> /\ TheRule.conditions # <<>>
                              /\ \A i \in 1..Len(TheRule.conditions) : ResultOf(i).ret)
        /\ TheRule.predicate = "any" =>
              (result.ret <=> \E i \in 1..Len(TheRule.conditions) : ResultOf(i).ret)
        /\ TheRule.conditions = <<>> => ~result.ret

\* a two-condition "any" rule that matched with one condition false, after evaluation
C5_Witness ==
    /\ entry = "rule" /\ pc = "done" /\ AllReturn
    /\ TheRule.predicate = "any" /\ Len(TheRule.conditions) = 2
    /\ ResultOf(1).ret /\ ~ResultOf(2).ret
    /\ result = Ret(TRUE)

-----------------------------------------------------------------------------
(* Properties of RuleCondition.evaluate (SpecCond) *)

\* the condition under test reads a string field the message has
OnStringField ==
    /\ entry = "condition" /\ pc = "done"
    /\ TheCondition.field \in DOMAIN EMAIL_FIELD_MAPPING \ {"received_date"}
    /\ EMAIL_FIELD_MAPPING[TheCondition.field] \in DOMAIN email
    /\ TheCondition.predicate \in StringPredicates

\* the condition under test is a date predicate with value "<N> days", N one
\* digit, on a message whose received_date is a datetime
OnDateField ==
    /\ entry = "condition" /\ pc = "done"
    /\ TheCondition.field = "received_date"
    /\ TheCondition.predicate \in DatePredicates
    /\ \E d \in DOMAIN DigitVal : TheCondition.value = DaysValue(<<d>>)
    /\ email.received_date.kind = "datetime"

DaysOf(c) == DigitVal[c.value[1]]
Threshold(c) == now - DaysOf(c) * TicksPerDay

With(c, p) == [c EXCEPT !.predicate = p]

\* C6: with threshold = now - N days, less_than is true iff the received time is
\* strictly after the threshold and greater_than iff it is strictly before; the
\* two are never both true, and both are false at the threshold.
C6_DateStrict ==
    OnDateField =>
        LET received == email.received_date.wall
            less == ConditionEvaluate(With(TheCondition, "less_than"), email, now)
            greater == ConditionEvaluate(With(TheCondition, "greater_than"), email, now)
        IN  /\ result.exc = "none"
            /\ TheCondition.predicate = "less_than" =>
                  (result.ret <=> received > Threshold(TheCondition))
            /\ TheCondition.predicate = "greater_than" =>
                  (result.ret <=> received < Threshold(TheCondition))
            /\ ~(less.ret /\ greater.ret)
            /\ received = Threshold(TheCondition) => ~less.ret /\ ~greater.ret

\* a message received exactly at the threshold, evaluated by less_than: false
C6_Witness ==
    /\ OnDateField
    /\ TheCondition.predicate = "less_than"
    /\ email.received_date.wall = Threshold(TheCondition)
    /\ result = Ret(FALSE)

CasePairs == {{"a", "A"}, {"b", "B"}}

\* a and b differ at most in the case of their letters
CaseVariant(a, b) ==
    /\ Len(a) = Len(b)
    /\ \A i \in 1..Len(a) : a[i] = b[i] \/ {a[i], b[i]} \in CasePairs

Opposite(p) ==
    CASE p = "contains" -> "does_not_contain"
      [] p = "does_not_contain" -> "contains"
      [] p = "equals" -> "does_not_equal"
      [] p = "does_not_equal" -> "equals"

\* C7: the string predicates are case-insensitive (another letter case of the
\* field value or of the comparison value gives the same result) and pairwise
\* complementary (contains = NOT does_not_contain, equals = NOT does_not_equal).
C7_StringPredicates ==
    OnStringField =>
        LET key == EMAIL_FIELD_MAPPING[TheCondition.field]
        IN  /\ result.exc = "none"
            /\ \A v \in Strings :
                  CaseVariant(v, TheCondition.value) =>
                     ConditionEvaluate([TheCondition EXCEPT !.value = v], email, now) = result
            /\ \A fv \in Strings :
                  CaseVariant(fv, email[key]) =>
                     ConditionEvaluate(TheCondition, [email EXCEPT ![key] = fv], now) = result
            /\ ConditionEvaluate(With(TheCondition, Opposite(TheCondition.predicate)),
                                 email, now).ret = ~result.ret

\* "contains" found an upper-case comparison value in a lower-case field value
C7_Witness ==
    /\ OnStringField
    /\ TheCondition.predicate = "contains"
    /\ TheCondition.value = <<"A">> /\ email[EMAIL_FIELD_MAPPING[TheCondition.field]] = <<"b", "a">>
    /\ result = Ret(TRUE)

-----------------------------------------------------------------------------
(* SpecLoad: RuleProcessor(rules_path), then process_email on one message *)

MaxRuleData == 2        \* longest generated rules document

D_noname == Without(R_read, "name")
D_noactions == Without(R_move, "actions")
D_novalue == [R_read EXCEPT !.conditions = <<Without(Cond("subject", "contains", <<"a">>), "value")>>]

MalformedCatalog == {D_noname, D_noactions, D_novalue}

\* a document that is no JSON object with a "rules" key
D_norules == [version |-> 1]

Documents ==
    {D_norules} \cup
    {[rules |-> rs] : rs \in SeqsUpTo(RuleCatalog \cup MalformedCatalog, MaxRuleData)}

InitLoad ==
    /\ entry = "load" /\ pc = "load"
    /\ now = MaxNow
    /\ config \in Documents
    /\ rules = <<>>
    /\ email \in {Message(1), Message(2)}
    /\ mailbox = MailboxOf(2)
    /\ store = DbAddEmailsBatch(<<>>, Normalized(<<Message(1), Message(2)>>))
    /\ Quiet
    /\ batches = <<>> /\ batch = <<>> /\ bi = 0 /\ batch_processed_ids = <<>> /\ batch_no = 1
    /\ client = TRUE /\ labels = <<>> /\ NoFetch

\* RuleProcessor.__init__ (lines 143-146), then the caller passes it a message
CallLoadRules ==
    /\ entry = "load" /\ pc = "load"
    /\ rules' = LoadRules(config)
    /\ pc' = "rule" /\ ri' = 1
    /\ UNCHANGED <<now, entry, config, service, email, ai, calls, log, failures, mailbox, store, result,
                   coordinator>>

NextLoad ==
    \/ CallLoadRules
    \/ EvaluateRule \/ ProcessReturn \/ ProcessHandler
    \/ ApplySkip \/ ApplyKeyError \/ ApplyMailbox \/ ApplyStore \/ ApplyReturn

SpecLoad == InitLoad /\ [][NextLoad]_vars

-----------------------------------------------------------------------------
(* SpecStore: calls on one EmailDatabase, as test_database.py makes them *)

MaxStoreCalls == 3      \* calls made on the database in one behaviour

\* message 1 fetched again with another subject and read in the meantime
Refetched(e) == [e EXCEPT !.subject = <<"b", "b">>, !.is_read = TRUE]

\* batches handed to add_emails_batch: one message, two messages, and the same
\* identifier twice in one batch
StoreBatches ==
    {Normalized(emails) : emails \in
        {<<Message(1)>>, <<Message(2)>>, <<Refetched(Message(1))>>,
         <<Message(1), Message(2)>>, <<Refetched(Message(1)), Message(2)>>,
         <<Message(1), Refetched(Message(1))>>}}

\* identifiers passed to the database; no message is ever stored under the last
StoreIds == {Message(1).message_id, Message(2).message_id, Message(3).message_id}

StoreIdLists == {<<>>, <<1>>, <<1, 2>>, <<2, 3>>}

InitStore ==
    /\ entry = "store" /\ pc = "idle"
    /\ now = MaxNow
    /\ rules = <<>> /\ email = <<>>
    /\ mailbox = <<>> /\ store = <<>>
    /\ Quiet /\ NoRun

\* add_emails_batch(emails)
StoreAdd ==
    /\ entry = "store" /\ Len(calls) < MaxStoreCalls
    /\ \E emails \in StoreBatches :
          /\ store' = DbAddEmailsBatch(store, emails)
          /\ calls' = Append(calls, Call("store", "add_emails_batch", 0,
                                         [emails |-> emails], "ok", 0, 0))
    /\ UNCHANGED <<now, entry, config, service, rules, email, pc, ri, ai, log, failures, mailbox,
                   result, coordinator>>

\* mark_as_read(message_id, is_read)
StoreMarkAsRead ==
    /\ entry = "store" /\ Len(calls) < MaxStoreCalls
    /\ \E id \in StoreIds : \E is_read \in BOOLEAN :
          /\ store' = DbMarkAsRead(store, id, is_read)
          /\ calls' = Append(calls, Call("store", "mark_as_read", id,
                                         [read |-> is_read], "ok", 0, 0))
    /\ UNCHANGED <<now, entry, config, service, rules, email, pc, ri, ai, log, failures, mailbox,
                   result, coordinator>>

\* mark_as_processed_batch(message_ids)
StoreMarkAsProcessed ==
    /\ entry = "store" /\ Len(calls) < MaxStoreCalls
    /\ \E ids \in StoreIdLists :
          /\ store' = DbMarkAsProcessedBatch(store, ids)
          /\ calls' = Append(calls, Call("store", "mark_as_processed_batch", 0,
                                         [ids |-> ids], "ok", 0, 0))
    /\ UNCHANGED <<now, entry, config, service, rules, email, pc, ri, ai, log, failures, mailbox,
                   result, coordinator>>

\* get_processed_emails(message_ids); no filter is the empty list
StoreGetProcessed ==
    /\ entry = "store" /\ Len(calls) < MaxStoreCalls
    /\ \E message_ids \in StoreIdLists :
          /\ result' = Ret(DbGetProcessedEmails(store, message_ids))
          /\ calls' = Append(calls, Call("store", "get_processed_emails", 0,
                                         [ids |-> message_ids], "ok", 0, 0))
    /\ UNCHANGED <<now, entry, config, service, rules, email, pc, ri, ai, log, failures, mailbox,
                   store, coordinator>>

NextStore == StoreAdd \/ StoreMarkAsRead \/ StoreMarkAsProcessed \/ StoreGetProcessed

SpecStore == InitStore /\ [][NextStore]_vars

-----------------------------------------------------------------------------
(* Properties of Rule.apply_actions (SpecApply) *)

\* the dispatch table of section 4.2: the calls one action stands for
TableCalls(action, id) ==
    IF "type" \notin DOMAIN action THEN <<>>
    ELSE IF action.type = "mark_as_read"
         THEN <<[svc |-> "mailbox", op |-> "mark_as_read", id |-> id, arg |-> [read |-> TRUE]],
                [svc |-> "store", op |-> "mark_as_read", id |-> id, arg |-> [read |-> TRUE]]>>
    ELSE IF action.type = "mark_as_unread"
         THEN <<[svc |-> "mailbox", op |-> "mark_as_read", id |-> id, arg |-> [read |-> FALSE]],
                [svc |-> "store", op |-> "mark_as_read", id |-> id, arg |-> [read |-> FALSE]]>>
    ELSE IF action.type = "move_message" /\ "label" \in DOMAIN action
         THEN <<[svc |-> "mailbox", op |-> "move_message", id |-> id,
                 arg |-> [label |-> action.label]],
                [svc |-> "store", op |-> "update_labels", id |-> id,
                 arg |-> [label |-> action.label]]>>
    ELSE <<>>

Bare(c) == [svc |-> c.svc, op |-> c.op, id |-> c.id, arg |-> c.arg]

RECURSIVE CallsBy(_, _, _)
\* the calls of cs made by action a of rule r, in order, without their outcome
CallsBy(cs, r, a) ==
    IF cs = <<>> THEN <<>>
    ELSE IF Head(cs).rule = r /\ Head(cs).action = a
         THEN <<Bare(Head(cs))>> \o CallsBy(Tail(cs), r, a)
         ELSE CallsBy(Tail(cs), r, a)

RECURSIVE ReplayMailbox(_, _)
\* the mailbox after the calls of cs that succeeded
ReplayMailbox(mb, cs) ==
    IF cs = <<>> THEN mb
    ELSE LET c == Head(cs)
             after == IF c.svc # "mailbox" \/ c.out # "ok" THEN mb
                      ELSE IF c.op = "mark_as_read" THEN GmailMarkAsRead(mb, c.id, c.arg.read)
                      ELSE GmailMoveMessage(mb, c.id, c.arg.label)
         IN  ReplayMailbox(after, Tail(cs))

RECURSIVE ReplayStore(_, _)
\* the emails table after the calls of cs that succeeded
ReplayStore(st, cs) ==
    IF cs = <<>> THEN st
    ELSE LET c == Head(cs)
             after == IF c.svc # "store" \/ c.out # "ok" THEN st
                      ELSE IF c.op = "mark_as_read" THEN DbMarkAsRead(st, c.id, c.arg.read)
                      ELSE IF c.op = "update_labels" THEN DbUpdateLabels(st, c.id, c.arg.label)
                      ELSE st
         IN  ReplayStore(after, Tail(cs))

StoreOfOne == DbAddEmailsBatch(<<>>, Normalized(<<Message(1)>>))

ApplyDone == entry = "apply" /\ pc = "done"
SomeCallRaised == \E i \in 1..Len(calls) : calls[i].out = "raise"
AllCallsOk == \A i \in 1..Len(calls) : calls[i].out = "ok"

\* C3: apply_actions is not transactional. When the k-th action raises, the call
\* returns False, the raising call is the last one made (no later action is
\* attempted), the actions before k made all their calls, and every mutation of
\* a call that succeeded is still in the mailbox and in the store.
C3_NoRollback ==
    ApplyDone =>
        /\ SomeCallRaised =>
              /\ result = Ret(FALSE)
              /\ calls[Len(calls)].out = "raise" /\ calls[Len(calls)].action = ai
        /\ result = Ret(FALSE) =>
              /\ \A i \in 1..Len(calls) : calls[i].action <= ai
              /\ \A i \in 1..(Len(calls) - 1) : calls[i].out # "raise"
              /\ \A a \in 1..(ai - 1) :
                    CallsBy(calls, 1, a) = TableCalls(TheRule.actions[a], EmailId(email))
              /\ mailbox = ReplayMailbox(MailboxOf(1), calls)
              /\ store = ReplayStore(StoreOfOne, calls)

\* the store call of the second action raised after three calls that went
\* through: the message stays read in both, and unread was set in the mailbox only
C3_Witness ==
    /\ ApplyDone /\ result = Ret(FALSE)
    /\ TheRule.actions = <<A_read, A_unread>>
    /\ Len(calls) = 4 /\ calls[4].out = "raise" /\ calls[4].svc = "store"
    /\ \A i \in 1..3 : calls[i].out = "ok"
    /\ mailbox[1].unread /\ RowsOf(store, 1)[1].is_read

\* C9: an action of unrecognized type is skipped without error: no collaborator
\* call is made for it, the recognized actions of the list make their calls, and
\* apply_actions returns True when no recognized action fails.
C9_UnknownSkipped ==
    (/\ ApplyDone /\ AllCallsOk /\ "message_id" \in DOMAIN email
     /\ \A a \in 1..Len(TheRule.actions) : "type" \in DOMAIN TheRule.actions[a]) =>
        /\ result = Ret(TRUE)
        /\ \A a \in 1..Len(TheRule.actions) :
              /\ TheRule.actions[a].type \notin ActionTypes => CallsBy(calls, 1, a) = <<>>
              /\ CallsBy(calls, 1, a) = TableCalls(TheRule.actions[a], email.message_id)

\* an unrecognized action before mark_as_read: two calls, both for mark_as_read
C9_Witness ==
    /\ ApplyDone /\ result = Ret(TRUE)
    /\ TheRule.actions = <<A_unknown, A_read>>
    /\ Len(calls) = 2 /\ calls[1].action = 2 /\ calls[2].action = 2

-----------------------------------------------------------------------------
(* Properties of RuleProcessor.process_email (SpecEngine) *)

ProcessReturned == entry = "process" /\ pc = "returned"

IsApply(k, r, ok) == log[k].ev = "apply" /\ log[k].rule = r /\ log[k].ok = ok
Applied(r, ok) == \E k \in 1..Len(log) : IsApply(k, r, ok)
NoEvaluationRaised == \A k \in 1..Len(log) : log[k].ev # "raise"

\* C2: a failure while a matching rule's actions are applied does not stop the
\* rule loop: the rule after it is evaluated next and, if it matches, has its
\* actions applied; unless an evaluation raises, every rule is evaluated.
C2_FailedApplyGoesOn ==
    ProcessReturned =>
        /\ \A k \in 1..Len(log) :
              (log[k].ev = "apply" /\ ~log[k].ok /\ log[k].rule < Len(rules)) =>
                  /\ k < Len(log)
                  /\ log[k + 1].rule = log[k].rule + 1
                  /\ log[k + 1].ev \in {"evaluate", "raise"}
                  /\ (log[k + 1].ev = "evaluate" /\ log[k + 1].ok) =>
                        /\ k + 2 <= Len(log)
                        /\ log[k + 2].ev = "apply" /\ log[k + 2].rule = log[k].rule + 1
        /\ NoEvaluationRaised =>
              \A r \in 1..Len(rules) :
                  \E k \in 1..Len(log) :
                      /\ log[k].ev = "evaluate" /\ log[k].rule = r
                      /\ log[k].ok = RuleEvaluate(rules[r], email, now).ret

\* the first rule's mailbox call raised; the second rule matched and made its calls
C2_Witness ==
    /\ ProcessReturned /\ Len(rules) = 2
    /\ Applied(1, FALSE) /\ Applied(2, TRUE)
    /\ calls[1].out = "raise" /\ calls[1].rule = 1
    /\ \E i \in 1..Len(calls) : calls[i].rule = 2 /\ calls[i].out = "ok"

\* C4: process_email never raises: whatever the rules and the message, a
\* message without identifier included, it returns a boolean, True unless an
\* exception occurred while the message was evaluated and False then.
C4_NeverRaises ==
    ProcessReturned =>
        /\ result.exc = "none"
        /\ result.ret <=> NoEvaluationRaised

\* all the calls rule r stands for on this message, up to an action without type
RECURSIVE TableCallsOf(_, _)
TableCallsOf(actions, id) ==
    IF actions = <<>> \/ "type" \notin DOMAIN Head(actions) THEN <<>>
    ELSE TableCalls(Head(actions), id) \o TableCallsOf(Tail(actions), id)

\* rule r is reached and matches: no rule up to it raises when evaluated
Fires(r) ==
    /\ \A q \in 1..r : RuleEvaluate(rules[q], email, now).exc = "none"
    /\ RuleEvaluate(rules[r], email, now).ret

RECURSIVE FiringCalls(_)
\* the calls of the rules r.. that fire, in declaration order
FiringCalls(r) ==
    IF r > Len(rules) THEN <<>>
    ELSE (IF Fires(r) /\ "message_id" \in DOMAIN email
          THEN TableCallsOf(rules[r].actions, email.message_id) ELSE <<>>)
         \o FiringCalls(r + 1)

\* C8: all matching rules fire, in declaration order: the calls of one
\* process_email call are the calls of every rule that matches, rule after rule,
\* and a rule that does not match makes no call. (When a call raises, the calls
\* of its rule end there; the rules after it still make theirs.)
C8_AllMatchingFire ==
    /\ entry = "process" =>
          \A i \in 1..Len(calls) : \A j \in i..Len(calls) : calls[i].rule <= calls[j].rule
    /\ ProcessReturned =>
          /\ \A i \in 1..Len(calls) : Fires(calls[i].rule)
          /\ \A r \in 1..Len(rules) : Fires(r) => Applied(r, TRUE) \/ Applied(r, FALSE)
          /\ failures = 0 =>
                [i \in 1..Len(calls) |-> Bare(calls[i])] = FiringCalls(1)

\* two rules matched the message and both made their calls, the first rule first
C8_Witness ==
    /\ ProcessReturned /\ failures = 0
    /\ rules = <<R_read, R_move>>
    /\ Len(calls) = 6
    /\ calls[1].rule = 1 /\ calls[2].rule = 1 /\ calls[3].rule = 2 /\ calls[6].rule = 2

\* action a of rule r has been executed without error
Executed(r, a) ==
    \/ Applied(r, TRUE)
    \/ r = ri /\ pc \in {"actions", "store"} /\ a < ai

\* C10: a recognized action executed without error has made exactly one mailbox
\* call and then exactly one store call for the message, with the arguments of
\* the dispatch table; a single matching mark_as_read rule gives
\* mailbox.mark_as_read(id, True) and store.mark_as_read(id, True), once each,
\* and process_email returns True.
C10_DispatchTable ==
    (entry = "process") =>
        /\ \A r \in 1..Len(rules) : \A a \in 1..Len(rules[r].actions) :
              (Executed(r, a) /\ rules[r].actions[a].type \in ActionTypes) =>
                  CallsBy(calls, r, a) = TableCalls(rules[r].actions[a], EmailId(email))
        /\ (ProcessReturned /\ rules = <<R_read>> /\ Applied(1, TRUE)) =>
              /\ [i \in 1..Len(calls) |-> Bare(calls[i])] =
                    TableCalls(A_read, email.message_id)
              /\ result = Ret(TRUE)

\* mark_as_unread and move_message were executed by a rule that matched
C10_Witness ==
    /\ ProcessReturned /\ rules = <<R_move>> /\ Applied(1, TRUE)
    /\ Len(calls) = 4 /\ calls[1].svc = "mailbox" /\ calls[2].svc = "store"
    /\ calls[3].arg = [read |-> FALSE] /\ calls[4].arg = [read |-> FALSE]

-----------------------------------------------------------------------------
(* Properties of process_emails (Spec) *)

\* the message matched at least one rule
Matched(id) ==
    \E k \in 1..Len(log) : log[k].ev = "evaluate" /\ log[k].msg = id /\ log[k].ok

IsUpsert(c) == c.svc = "store" /\ c.op = "add_emails_batch"
IsMark(c) == c.svc = "store" /\ c.op = "mark_as_processed_batch"

\* a batch is in hand and its messages are being processed
InBatch == entry = "run" /\ pc \in {"message", "rule", "actions", "store", "handler", "returned"}

\* the position in calls of the last add_emails_batch
LastUpsert == CHOOSE i \in 1..Len(calls) :
                 IsUpsert(calls[i]) /\ \A j \in (i + 1)..Len(calls) : ~IsUpsert(calls[j])

\* C1: for every batch, add_emails_batch is called once with all its messages
\* before any of them is processed, and mark_as_processed_batch is called with
\* exactly the identifiers of the messages that matched at least one rule: a
\* message that matched no rule is not in the list.
C1_MarksMatchedOnly ==
    /\ InBatch =>
          /\ \E i \in 1..Len(calls) : IsUpsert(calls[i])
          /\ calls[LastUpsert].arg.ids = Ids(batch) /\ calls[LastUpsert].out = "ok"
          /\ \A i \in 1..Len(calls) : \A j \in 1..Len(batch) :
                calls[i].id = batch[j].message_id => i > LastUpsert
    /\ \A i \in 1..Len(calls) :
          IsMark(calls[i]) =>
              \A j \in 1..Len(calls[i].arg.ids) : Matched(calls[i].arg.ids[j])

-----------------------------------------------------------------------------
(* Failure reporting of Rule.apply_actions (SpecApply) *)

\* C11: apply_actions returns True only if every mailbox call and every store
\* call it made succeeded; a mailbox call that reports failure by returning
\* False (as mark_as_read and move_message do on an API error) makes it return
\* False.
C11_FailureReturnsFalse ==
    (ApplyDone /\ result = Ret(TRUE)) => AllCallsOk

-----------------------------------------------------------------------------
(* Properties of process_emails, continued (Spec) *)

\* apply_actions returned False for a rule that matched the message
ApplyFailed(id) ==
    \E k \in 1..Len(log) : log[k].ev = "apply" /\ log[k].msg = id /\ ~log[k].ok

\* C12: a message is marked processed only if the actions of the rules it
\* matched were fully applied: a message for which a matching rule's
\* apply_actions returned False is not among the identifiers passed to
\* mark_as_processed_batch.
C12_MarksFullyAppliedOnly ==
    \A i \in 1..Len(calls) :
        IsMark(calls[i]) =>
            \A j \in 1..Len(calls[i].arg.ids) : ~ApplyFailed(calls[i].arg.ids[j])

\* process_email was called on the message and has ended, with this result
Processed(id, ok) ==
    \E k \in 1..Len(log) : log[k].ev = "process" /\ log[k].msg = id /\ log[k].ok = ok

\* the batch in hand was stored and the coordinator has left it
BatchOver ==
    /\ entry = "run" /\ pc \in {"fetch", "closed", "raised"} /\ batch # <<>>
    /\ \E i \in 1..Len(calls) :
          IsUpsert(calls[i]) /\ calls[i].arg.ids = Ids(batch) /\ calls[i].out = "ok"

\* the identifiers of the batch whose process_email call returned True
ProcessedIds == SelectSeq(Ids(batch), LAMBDA id : Processed(id, TRUE))

\* C13: a message whose processing fails does not end its batch: every message
\* of a stored batch is passed to process_email, whatever happened to the
\* messages before it, and the identifiers of those for which it returned True
\* (and only those) are passed to mark_as_processed_batch after the last one.
C13_MessageIsolation ==
    BatchOver =>
        /\ \A j \in 1..Len(batch) :
              Processed(batch[j].message_id, TRUE) \/ Processed(batch[j].message_id, FALSE)
        /\ IF ProcessedIds = <<>>
           THEN ~IsMark(calls[Len(calls)])
           ELSE IsMark(calls[Len(calls)]) /\ calls[Len(calls)].arg.ids = ProcessedIds

\* process_email returned False for the first message of a batch of two (a rule
\* raised when evaluated); the second message was processed all the same
C13_Witness ==
    /\ BatchOver /\ Len(batch) = 2 /\ batch_no = 2
    /\ rules = <<R_overflow, R_read>>
    /\ Processed(batch[1].message_id, FALSE)
    /\ Processed(batch[2].message_id, TRUE) \/ Processed(batch[2].message_id, FALSE)

\* a collaborator could not be built; a messages.list call failed
ConstructionFailed == \E k \in 1..Len(log) : log[k].ev = "construct"
ListFailed == \E k \in 1..Len(log) : log[k].ev = "list"

\* C14: an error in one batch does not end the run. process_emails raises to
\* its caller only when a collaborator could not be built, and when it returns
\* every page the mailbox could deliver has been listed, fetched and handled:
\* no failure of add_emails_batch, of processing, of mark_as_processed_batch or
\* of fetching and decoding one message leaves a later page unread.
C14_BatchIsolation ==
    entry = "run" =>
        /\ pc = "raised" => ConstructionFailed
        /\ pc = "closed" => batches = <<>> \/ ConstructionFailed \/ ListFailed

-----------------------------------------------------------------------------
(* Properties of RuleProcessor.load_rules (SpecLoad) *)

\* loading the document fails: it has no rule list, or a rule of the list is
\* malformed, wherever in the list it stands
LoadFails(document) ==
    \/ "rules" \notin DOMAIN document
    \/ \E i \in 1..Len(document.rules) : ~WellFormedRule(document.rules[i])

\* C15: when loading the rules document fails, the engine is left with an
\* empty rule list, also when the malformed rule follows well-formed ones, and
\* process_email then makes no collaborator call for any message.
C15_LoadFailureEmpties ==
    (entry = "load" /\ pc # "load" /\ LoadFails(config)) =>
        rules = <<>> /\ calls = <<>>

-----------------------------------------------------------------------------
(* Totality of RuleCondition.evaluate (SpecCond) *)

ConditionDone == entry = "condition" /\ pc = "done"

\* C16: RuleCondition.evaluate is total: whatever the field name, predicate,
\* comparison value and message, it returns a boolean and does not raise; it
\* returns False for a field name outside the known set and for a field the
\* message does not have.
C16_EvaluateTotal ==
    ConditionDone =>
        /\ result.exc = "none" /\ result.ret \in BOOLEAN
        /\ (\/ TheCondition.field \notin DOMAIN EMAIL_FIELD_MAPPING
            \/ EMAIL_FIELD_MAPPING[TheCondition.field] \notin DOMAIN email) => ~result.ret

\* a predicate of the other kind of field
Mismatched(c) ==
    \/ c.field \in DOMAIN EMAIL_FIELD_MAPPING \ {"received_date"} /\ c.predicate \in DatePredicates
    \/ c.field = "received_date" /\ c.predicate \in StringPredicates

\* C17: a condition with a mismatched field/predicate combination (a string
\* field with less_than or greater_than, received_date with one of the four
\* string predicates) evaluates to False for every message and value, without
\* error.
C17_MismatchIsFalse ==
    (ConditionDone /\ Mismatched(TheCondition)) => result = Ret(FALSE)

\* the whitespace-separated words of s
RECURSIVE SplitWords(_)
SplitWords(s) ==
    LET t == SkipSpaces(s)
    IN  IF t = <<>> THEN <<>>
        ELSE <<TakeWord(t)>> \o SplitWords(SubSeq(t, Len(TakeWord(t)) + 1, Len(t)))

\* the value reads "<N> days": an integer, then the word days, and nothing else
IsDaysForm(v) ==
    LET ws == SplitWords(v)
    IN  Len(ws) = 2 /\ ParseInt(ws[1]).exc = "none" /\ ws[2] = S_days

\* C18: a date condition (less_than or greater_than on received_date) whose
\* comparison value is not of the form "<N> days" evaluates to False for every
\* message.
C18_OnlyDaysForm ==
    (/\ ConditionDone /\ TheCondition.field = "received_date"
     /\ TheCondition.predicate \in DatePredicates
     /\ ~IsDaysForm(TheCondition.value)) => result = Ret(FALSE)

-----------------------------------------------------------------------------
(* Properties of EmailDatabase (SpecStore) *)

\* the messages passed to add_emails_batch so far, call after call
RECURSIVE UpsertedIn(_)
UpsertedIn(cs) ==
    IF cs = <<>> THEN <<>>
    ELSE (IF IsUpsert(Head(cs)) THEN Head(cs).arg.emails ELSE <<>>) \o UpsertedIn(Tail(cs))

Upserted == UpsertedIn(calls)

\* the last message upserted under this identifier
LastUpserted(id) ==
    LET of == SelectSeq(Upserted, LAMBDA e : e.message_id = id)
    IN  of[Len(of)]

MessageColumns ==
    {"message_id", "sender", "recipient", "subject", "body", "labels", "received_date"}

MessageFields(r) == [k \in MessageColumns |-> r[k]]

\* C19: add_emails_batch is an upsert keyed by message_id. After any calls the
\* table holds exactly one row for every identifier ever upserted and no other
\* row, the message columns of that row are those of the last message upserted
\* under the identifier, and upserting a batch a second time leaves the table
\* as the first time did.
C19_UpsertIdempotent ==
    (entry = "store") =>
        /\ \A i \in 1..Len(Upserted) : Len(RowsOf(store, Upserted[i].message_id)) = 1
        /\ \A i \in 1..Len(store) :
              \E j \in 1..Len(Upserted) : Upserted[j].message_id = store[i].message_id
        /\ \A i \in 1..Len(store) :
              MessageFields(store[i]) = MessageFields(LastUpserted(store[i].message_id))
        /\ \A emails \in StoreBatches :
              DbAddEmailsBatch(DbAddEmailsBatch(store, emails), emails)
                  = DbAddEmailsBatch(store, emails)

\* message 1 was upserted, marked read, and upserted again with another
\* subject next to message 2: two rows, message 1 with its new subject
C19_Witness ==
    /\ entry = "store" /\ Len(calls) = 3
    /\ IsUpsert(calls[1]) /\ calls[1].arg.emails = Normalized(<<Message(1)>>)
    /\ calls[2].op = "mark_as_read"
    /\ IsUpsert(calls[3]) /\ Len(calls[3].arg.emails) = 2
    /\ Len(store) = 2
    /\ RowsOf(store, 1)[1].subject = <<"b", "b">>

-----------------------------------------------------------------------------
(* Ordering of the processed mark (Spec) *)

\* process_email is at work on the message in hand
InProcess == entry = "run" /\ pc \in {"rule", "actions", "store", "handler", "returned"}

\* the calls apply_actions made for this message
IsActionCall(c, id) == c.rule > 0 /\ c.id = id

\* C20: the processed mark of a message is written only after its action
\* application is over: when mark_as_processed_batch is called with an
\* identifier, process_email has returned for that message and every mailbox
\* and store call made for it comes earlier; no row carries the processed flag
\* before or while its message is processed.
C20_MarkAfterActions ==
    /\ \A i \in 1..Len(calls) :
          IsMark(calls[i]) =>
              \A j \in 1..Len(calls[i].arg.ids) :
                  /\ Processed(calls[i].arg.ids[j], TRUE)
                  /\ \A k \in 1..Len(calls) :
                        IsActionCall(calls[k], calls[i].arg.ids[j]) => k < i
    /\ entry = "run" =>
          \A i \in 1..Len(store) :
              store[i].processed =>
                  /\ Processed(store[i].message_id, TRUE)
                  /\ ~(InProcess /\ email.message_id = store[i].message_id)

\* both messages of a batch had their actions applied, then both were marked
C20_Witness ==
    /\ entry = "run" /\ pc = "fetch" /\ Len(batch) = 2
    /\ IsMark(calls[Len(calls)]) /\ calls[Len(calls)].out = "ok"
    /\ calls[Len(calls)].arg.ids = <<1, 2>>
    /\ \E k \in 1..Len(calls) : IsActionCall(calls[k], 1)
    /\ \E k \in 1..Len(calls) : IsActionCall(calls[k], 2) /\ calls[k].svc = "store"
    /\ \A i \in 1..Len(store) : store[i].processed

-----------------------------------------------------------------------------
(* The message dictionary (SpecEngine) *)

\* C21: the engine does not mutate the message it is given: no step of
\* process_email, of the rule and condition evaluations it makes, or of
\* apply_actions changes a field of the dictionary; changes are only requested
\* from the mailbox and the store.
C21_MessageUntouched == [][entry = "process" => email' = email]_vars

\* a rule with a date condition matched a timezone-aware message and moved it:
\* the calls changed mailbox and store, the dictionary is as it was passed
C21_Witness ==
    /\ ProcessReturned /\ rules = <<R_old>> /\ Applied(1, TRUE)
    /\ email = Message(1) /\ email.received_date.tz
    /\ mailbox # MailboxOf(3)
    /\ RowsOf(store, 1)[1].labels = L_work

-----------------------------------------------------------------------------
(* Processed identifiers (SpecStore) *)

LastCall == calls[Len(calls)]
LastCallIs(op) == entry = "store" /\ calls # <<>> /\ LastCall.op = op

StoredIds(st) == {st[i].message_id : i \in 1..Len(st)}
FlaggedIds(st) == {st[i].message_id : i \in {j \in 1..Len(st) : st[j].processed}}

\* C22: after mark_as_processed_batch(ids), get_processed_emails returns every
\* one of the identifiers that are stored, with or without them as filter; it
\* returns only identifiers of stored rows whose processed flag is set, each
\* once, restricted to the filter when a non-empty filter is given; marking an
\* identifier that is not stored creates no row.
C22_ProcessedQuery ==
    /\ LastCallIs("mark_as_processed_batch") =>
          /\ Elems(LastCall.arg.ids) \cap StoredIds(store)
                \subseteq Elems(DbGetProcessedEmails(store, <<>>))
          /\ Elems(LastCall.arg.ids) \cap StoredIds(store)
                \subseteq Elems(DbGetProcessedEmails(store, LastCall.arg.ids))
    /\ LastCallIs("get_processed_emails") =>
          /\ Elems(result.ret) =
                IF LastCall.arg.ids = <<>> THEN FlaggedIds(store)
                ELSE FlaggedIds(store) \cap Elems(LastCall.arg.ids)
          /\ Cardinality(Elems(result.ret)) = Len(result.ret)
    /\ entry = "store" =>
          StoredIds(store) \subseteq {Upserted[i].message_id : i \in 1..Len(Upserted)}

\* messages 1 and 2 were stored and marked; the query filtered on 2 and on the
\* identifier 3, which is not stored, returns 2 alone
C22_Witness ==
    /\ LastCallIs("get_processed_emails") /\ Len(calls) = 3
    /\ IsUpsert(calls[1]) /\ IsMark(calls[2]) /\ calls[2].arg.ids = <<1, 2>>
    /\ LastCall.arg.ids = <<2, 3>>
    /\ result = Ret(<<2>>)
    /\ FlaggedIds(store) = {1, 2}

-----------------------------------------------------------------------------
(* SpecFetch: one run of the generator get_emails_batch(max_results) *)

\* the generator is created on a mailbox of n messages listed k to a page;
\* message u (if any) has no Date header; the server may announce a further
\* page after the last message, which then lists nothing
InitFetch ==
    /\ entry = "fetch" /\ pc = "start"
    /\ now = MaxNow
    /\ rules = <<>> /\ email = <<>> /\ config = [rules |-> rules]
    /\ store = <<>>
    /\ Quiet
    /\ batch = <<>> /\ bi = 0 /\ batch_processed_ids = <<>> /\ batch_no = 1
    /\ labels = <<>> /\ client \in BOOLEAN
    /\ \E n \in 0..MaxMessages : \E k \in 1..MaxMessages : \E u \in {0, n} :
       \E more \in BOOLEAN :
          /\ k <= n \/ k = 1
          /\ batches = RawPages(1, n, k, u) \o (IF more THEN << <<>> >> ELSE <<>>)
          /\ mailbox = MailboxOf(n)
    /\ max_results \in 0..(MaxMessages + 1)
    /\ page_token = NoToken /\ messages = [nextPageToken |-> NoToken]
    /\ mi = 0 /\ emails_processed = 0 /\ batch_emails = <<>> /\ yielded = <<>>

\* lines 66-80: without a client the generator ends at once
FetchStart ==
    /\ entry = "fetch" /\ pc = "start"
    /\ pc' = IF client THEN "list" ELSE "done"
    /\ UNCHANGED <<now, entry, config, service, engine_rest, coordinator>>

\* lines 82-96: the page is listed; a response without "messages" ends the
\* generator, an HttpError is caught at line 118 and ends it, any other
\* exception leaves it
ListPage ==
    /\ entry = "fetch" /\ pc = "list"
    /\ \E out \in {"ok", "HttpError", "raise"} :
          /\ out # "ok" => failures < MaxFailures
          /\ failures' = IF out = "ok" THEN failures ELSE failures + 1
          /\ LET response == ListMessages(batches, page_token)
             IN  /\ calls' = Append(calls, Call("gmail", "list", 0,
                                   [token |-> page_token,
                                    listed |-> out = "ok" /\ "messages" \in DOMAIN response,
                                    next |-> IF out = "ok" THEN response.nextPageToken
                                             ELSE NoToken],
                                   out, 0, 0))
                 /\ IF out = "HttpError" THEN pc' = "done" /\ UNCHANGED <<messages, mi, batch_emails>>
                    ELSE IF out = "raise" THEN pc' = "raised" /\ UNCHANGED <<messages, mi, batch_emails>>
                    ELSE /\ messages' = response
                         /\ IF "messages" \notin DOMAIN response
                            THEN pc' = "done" /\ UNCHANGED <<mi, batch_emails>>
                            ELSE pc' = "page" /\ mi' = 1 /\ batch_emails' = <<>>
    /\ UNCHANGED <<now, entry, config, client, labels, max_results, page_token, emails_processed,
                   yielded, rules, email, ri, ai, log, mailbox, store, result, coordinator>>

\* faulty variant: the loop over the page does not look at max_results
GetMessageUnbounded ==
    /\ entry = "fetch" /\ pc = "page"
    /\ IF mi > Len(messages.messages)
       THEN pc' = "after" /\ UNCHANGED <<mi, emails_processed, batch_emails, calls, failures>>
       ELSE \E out \in {"ok", "HttpError"} :
               /\ out # "ok" => failures < MaxFailures
               /\ failures' = IF out = "ok" THEN failures ELSE failures + 1
               /\ calls' = Append(calls, Call("gmail", "get", messages.messages[mi].id,
                                              [format |-> "full"], out, 0, 0))
               /\ LET fetched == GetEmailData(messages.messages[mi])
                  IN  IF out = "HttpError"
                      THEN pc' = "page" /\ mi' = mi + 1
                           /\ UNCHANGED <<emails_processed, batch_emails>>
                      ELSE IF fetched.exc # "none"
                      THEN pc' = "raised" /\ UNCHANGED <<mi, emails_processed, batch_emails>>
                      ELSE /\ pc' = "page" /\ mi' = mi + 1
                           /\ batch_emails' = Append(batch_emails, fetched.ret)
                           /\ emails_processed' = emails_processed + 1
    /\ UNCHANGED <<now, entry, config, client, labels, max_results, page_token, messages,
                   yielded, rules, email, ri, ai, log, mailbox, store, result, coordinator>>

\* lines 99-105, one turn of the loop over the page: the loop is left at the end
\* of the page or once max_results messages were fetched; otherwise the message
\* is fetched (_get_email_data): an HttpError of the get call gives None and the
\* message is dropped, a message that cannot be decoded raises out of the
\* generator, any other message is added to the batch and counted
GetMessage ==
    /\ entry = "fetch" /\ pc = "page"
    /\ IF \/ mi > Len(messages.messages)
          \/ max_results # 0 /\ emails_processed >= max_results
       THEN pc' = "after" /\ UNCHANGED <<mi, emails_processed, batch_emails, calls, failures>>
       ELSE \E out \in {"ok", "HttpError"} :
               /\ out # "ok" => failures < MaxFailures
               /\ failures' = IF out = "ok" THEN failures ELSE failures + 1
               /\ calls' = Append(calls, Call("gmail", "get", messages.messages[mi].id,
                                              [format |-> "full"], out, 0, 0))
               /\ LET fetched == GetEmailData(messages.messages[mi])
                  IN  IF out = "HttpError"
                      THEN pc' = "page" /\ mi' = mi + 1
                           /\ UNCHANGED <<emails_processed, batch_emails>>
                      ELSE IF fetched.exc # "none"
                      THEN pc' = "raised" /\ UNCHANGED <<mi, emails_processed, batch_emails>>
                      ELSE /\ pc' = "page" /\ mi' = mi + 1
                           /\ batch_emails' = Append(batch_emails, fetched.ret)
                           /\ emails_processed' = emails_processed + 1
    /\ UNCHANGED <<now, entry, config, client, labels, max_results, page_token, messages,
                   yielded, rules, email, ri, ai, log, mailbox, store, result, coordinator>>

\* lines 107-116: a batch that is not empty is yielded; the generator ends when
\* max_results messages were fetched or the page has no next-page token, and
\* lists the next page otherwise
EndPage ==
    /\ entry = "fetch" /\ pc = "after"
    /\ yielded' = IF batch_emails # <<>> THEN Append(yielded, batch_emails) ELSE yielded
    /\ IF max_results # 0 /\ emails_processed >= max_results
       THEN pc' = "done" /\ UNCHANGED page_token
       ELSE /\ page_token' = messages.nextPageToken
            /\ pc' = IF messages.nextPageToken = NoToken THEN "done" ELSE "list"
    /\ UNCHANGED <<now, entry, config, client, labels, max_results, messages, mi,
                   emails_processed, batch_emails, engine_rest, coordinator>>

NextFetch == FetchStart \/ ListPage \/ GetMessage \/ EndPage

SpecFetch == InitFetch /\ [][NextFetch]_vars

-----------------------------------------------------------------------------
(* The batches of get_emails_batch (SpecFetch) *)

RECURSIVE Flat(_)
Flat(bs) == IF bs = <<>> THEN <<>> ELSE Head(bs) \o Flat(Tail(bs))

\* identifiers of the messages yielded so far, in the order they were yielded
YieldedIds == [i \in 1..Len(Flat(yielded)) |-> Flat(yielded)[i].message_id]

\* messages fetched by the first j calls
FetchedBy(j) == Cardinality({i \in 1..j : calls[i].op = "get" /\ calls[i].out = "ok"})

IsList(c) == c.op = "list"

\* C23: with max_results = n >= 1 the batches yielded hold at most n messages
\* in all, in the order the mailbox lists them, and none is empty; no request
\* is made once n messages were fetched, none after a page that lists no
\* message, and no page is listed after one without a next-page token; a
\* generator that has ended has yielded every message it fetched.
C23_FetchBounded ==
    (entry = "fetch" /\ max_results >= 1) =>
        /\ Len(YieldedIds) <= max_results
        /\ \A i, j \in 1..Len(YieldedIds) : i < j => YieldedIds[i] < YieldedIds[j]
        /\ \A b \in 1..Len(yielded) : yielded[b] # <<>>
        /\ \A j \in 1..Len(calls) : FetchedBy(j - 1) < max_results
        /\ \A i, j \in 1..Len(calls) :
              (i < j /\ IsList(calls[i])) =>
                  /\ calls[i].out = "ok" /\ calls[i].arg.listed
                  /\ IsList(calls[j]) => calls[i].arg.next # NoToken
        /\ pc = "done" => Len(YieldedIds) = emails_processed

\* three messages on one page and max_results = 3: one batch of the three,
\* after one list call and three get calls
C23_Witness ==
    /\ entry = "fetch" /\ pc = "done" /\ max_results = 3
    /\ batches = RawPages(1, 3, 3, 0)
    /\ yielded = << <<Message(1), Message(2), Message(3)>> >>
    /\ Len(calls) = 4 /\ IsList(calls[1])

-----------------------------------------------------------------------------
(* SpecMove: move_message called on a service with its label cache *)

MaxMoves == 3           \* requests after which move_message is not called again

LabelDigits == <<"1", "2", "3", "4", "5", "6", "7", "8", "9">>

\* the identifier the server gives the k-th label of the account
LabelId(k) == <<"L", LabelDigits[k]>>

\* the labels _get_labels returns: the system labels, whose identifier is
\* their name, and the user labels
SystemLabels == <<[id |-> L_inbox, name |-> L_inbox], [id |-> L_unread, name |-> L_unread]>>
UserLabel == [id |-> LabelId(3), name |-> <<"A">>]

MoveNames == {<<"a">>, <<"A">>, <<"b">>}

\* faulty variant: the names are compared as they are
KnownLabelsExact(ls, label_name) ==
    SelectSeq(ls, LAMBDA label : label.name = label_name)

\* lines 215-217: the cached labels whose name is label_name, case aside
KnownLabels(ls, label_name) ==
    SelectSeq(ls, LAMBDA label : Lower(label.name) = Lower(label_name))

\* the service was built: labels is what _get_labels returned, [] when the
\* labels could not be fetched
InitMove ==
    /\ entry = "move" /\ pc = "idle"
    /\ now = MaxNow
    /\ rules = <<>> /\ email = <<>>
    /\ mailbox = MailboxOf(2) /\ store = <<>>
    /\ Quiet
    /\ config = [rules |-> rules]
    /\ batches = <<>> /\ batch = <<>> /\ bi = 0 /\ batch_processed_ids = <<>> /\ batch_no = 1
    /\ client = TRUE /\ NoFetch
    /\ labels \in {<<>>, SystemLabels, Append(SystemLabels, UserLabel)}

\* move_message(message_id, label_name), lines 190-240: the label is looked up
\* in the cache and created when it is not there (the new label is added to
\* the cache), then the message is modified; an HttpError of either request
\* is caught and gives False
MoveMessage ==
    /\ entry = "move" /\ Len(calls) < MaxMoves
    /\ \E message_id \in DOMAIN mailbox : \E label_name \in MoveNames :
       \E created \in {"ok", "HttpError"} : \E modified \in {"ok", "HttpError"} :
          LET known == KnownLabels(labels, label_name)
              new_label == [id |-> LabelId(Len(labels) + 1), name |-> label_name]
              label_id == IF known # <<>> THEN known[1].id ELSE new_label.id
              create == Call("gmail", "create", message_id,
                             [name |-> label_name, label |-> new_label.id], created, 0, 0)
              modify == Call("gmail", "modify", message_id,
                             [name |-> label_name, label |-> label_id], modified, 0, 0)
              errors == (IF known = <<>> /\ created # "ok" THEN 1 ELSE 0)
                        + (IF (known # <<>> \/ created = "ok") /\ modified # "ok" THEN 1 ELSE 0)
          IN  /\ known # <<>> => created = "ok"
              /\ (known = <<>> /\ created # "ok") => modified = "ok"
              /\ failures + errors <= MaxFailures
              /\ failures' = failures + errors
              /\ IF known = <<>> /\ created # "ok"
                 THEN /\ calls' = Append(calls, create)
                      /\ result' = Ret(FALSE)
                      /\ UNCHANGED <<labels, mailbox>>
                 ELSE /\ calls' = (IF known = <<>> THEN Append(calls, create) ELSE calls)
                                      \o <<modify>>
                      /\ labels' = IF known = <<>> THEN labels \o <<new_label>> ELSE labels
                      /\ mailbox' = IF modified = "ok"
                                    THEN GmailMoveMessage(mailbox, message_id, label_id)
                                    ELSE mailbox
                      /\ result' = Ret(modified = "ok")
    /\ UNCHANGED <<now, entry, config, client, generator, pc, rules, email, ri, ai, log, store,
                   coordinator>>

NextMove == MoveMessage

SpecMove == InitMove /\ [][NextMove]_vars

\* the requests of the call of move_message that a step makes
Requests == SubSeq(calls', Len(calls) + 1, Len(calls'))
IsCreate(c) == c.op = "create"

\* C24: when a cached label has the requested name, case aside, move_message
\* creates no label and modifies the message with that label's identifier
\* added and INBOX removed; otherwise it makes exactly one create request, and
\* the label created is added to the cache under a new identifier and is the
\* one the message is modified with; after a label was created no later call
\* asks to create a label of the same name, case aside.
C24_LabelResolved ==
    /\ [][entry = "move" =>
            LET name == Requests[1].arg.name
                id == Requests[1].id
                known == SelectSeq(labels, LAMBDA l : Lower(l.name) = Lower(name))
                last == Requests[Len(Requests)]
            IN  /\ known # <<>> =>
                      /\ Len(Requests) = 1 /\ ~IsCreate(last) /\ labels' = labels
                      /\ last.arg.label = known[1].id
                      /\ last.out = "ok" =>
                            mailbox'[id].labels =
                                (mailbox[id].labels \ {L_inbox}) \cup {known[1].id}
                /\ known = <<>> =>
                      /\ IsCreate(Requests[1])
                      /\ \A i \in 2..Len(Requests) : ~IsCreate(Requests[i])
                      /\ Requests[1].out = "ok" =>
                            /\ Len(labels') = Len(labels) + 1
                            /\ SubSeq(labels', 1, Len(labels)) = labels
                            /\ labels'[Len(labels')].name = name
                            /\ \A i \in 1..Len(labels) :
                                  labels[i].id # labels'[Len(labels')].id
                            /\ Len(Requests) = 2
                            /\ last.arg.label = labels'[Len(labels')].id
                            /\ last.out = "ok" =>
                                  mailbox'[id].labels =
                                      (mailbox[id].labels \ {L_inbox}) \cup {last.arg.label}
                      /\ Requests[1].out # "ok" =>
                            Len(Requests) = 1 /\ labels' = labels /\ mailbox' = mailbox
         ]_vars
    /\ [](entry = "move" =>
            \A i, j \in 1..Len(calls) :
                (i < j /\ IsCreate(calls[i]) /\ calls[i].out = "ok" /\ IsCreate(calls[j]))
                    => Lower(calls[i].arg.name) # Lower(calls[j].arg.name))

\* the label "a" was created for message 1, and the later move of message 2 to
\* "A" used it without a create request
C24_Witness ==
    /\ entry = "move" /\ Len(calls) = 3
    /\ IsCreate(calls[1]) /\ calls[1].arg.name = <<"a">> /\ calls[1].id = 1
    /\ calls[3].arg.name = <<"A">> /\ calls[3].id = 2
    /\ labels = SystemLabels \o <<[id |-> LabelId(3), name |-> <<"a">>]>>
    /\ mailbox[1].labels = {L_unread, LabelId(3)}
    /\ mailbox[2].labels = {L_unread, LabelId(3)}

-----------------------------------------------------------------------------
(* Flags of a row that is upserted again (SpecStore) *)

\* the position in calls of the last add_emails_batch that held this
\* identifier (0: none)
LastUpsertOf(id) ==
    LET at == {i \in 1..Len(calls) :
                 /\ IsUpsert(calls[i])
                 /\ \E k \in 1..Len(calls[i].arg.emails) :
                       calls[i].arg.emails[k].message_id = id}
    IN  IF at = {} THEN 0 ELSE CHOOSE i \in at : \A j \in at : j <= i

\* the identifier was marked processed after it was last upserted
MarkedSince(id) ==
    \E j \in (LastUpsertOf(id) + 1)..Len(calls) :
        IsMark(calls[j]) /\ id \in Elems(calls[j].arg.ids)

\* the last mark_as_read of the identifier after its last upsert set the flag
ReadSince(id) ==
    LET at == {j \in (LastUpsertOf(id) + 1)..Len(calls) :
                 calls[j].op = "mark_as_read" /\ calls[j].id = id}
    IN  at # {} /\ calls[CHOOSE j \in at : \A k \in at : k <= j].arg.read

\* C25: add_emails_batch of a stored identifier replaces the row, so that its
\* is_read and processed columns are false again whatever they were: a row's
\* processed flag is set exactly when the identifier was marked processed
\* after its last upsert, its is_read flag exactly when the last mark_as_read
\* after its last upsert set it, and get_processed_emails reports exactly the
\* stored identifiers marked processed since their last upsert.
C25_UpsertResetsFlags ==
    entry = "store" =>
        /\ \A i \in 1..Len(store) :
              /\ store[i].processed = MarkedSince(store[i].message_id)
              /\ store[i].is_read = ReadSince(store[i].message_id)
        /\ Elems(DbGetProcessedEmails(store, <<>>))
              = {id \in StoredIds(store) : MarkedSince(id)}

\* messages 1 and 2 were stored and marked processed, then message 1 was
\* stored again: only message 2 is reported as processed
C25_Witness ==
    /\ entry = "store" /\ Len(calls) = 3
    /\ IsUpsert(calls[1]) /\ IsMark(calls[2]) /\ calls[2].arg.ids = <<1, 2>>
    /\ IsUpsert(calls[3]) /\ Len(calls[3].arg.emails) = 1
    /\ calls[3].arg.emails[1].message_id = 1
    /\ StoredIds(store) = {1, 2}
    /\ ~RowsOf(store, 1)[1].processed
    /\ DbGetProcessedEmails(store, <<>>) = <<2>>

-----------------------------------------------------------------------------
(* Rules that cannot match and moves without a label (SpecEngine) *)

NoLabelMove(action) ==
    /\ "type" \in DOMAIN action /\ action.type = "move_message"
    /\ "label" \notin DOMAIN action

\* what can make apply_actions fail at this action: it has no "type" key, or
\* it is a recognized action with its label that finds no "message_id" or
\* whose collaborator call raised
MayFail(r, a) ==
    LET action == rules[r].actions[a]
    IN  /\ ~NoLabelMove(action)
        /\ \/ "type" \notin DOMAIN action
           \/ action.type \in ActionTypes /\ "message_id" \notin DOMAIN email
           \/ \E i \in 1..Len(calls) :
                 calls[i].rule = r /\ calls[i].action = a /\ calls[i].out = "raise"

\* C26: a rule whose predicate is neither "all" nor "any" never matches,
\* whatever its conditions give: it is never evaluated to True, its actions
\* are never applied and it makes no collaborator call. A move_message action
\* without "label" makes no collaborator call, and apply_actions fails only
\* because of another action of the list.
C26_NoMatchNoLabel ==
    entry = "process" =>
        \A r \in 1..Len(rules) :
            /\ rules[r].predicate \notin {"all", "any"} =>
                  /\ \A k \in 1..Len(log) :
                        log[k].rule = r => log[k].ev \in {"evaluate", "raise"} /\ ~log[k].ok
                  /\ \A i \in 1..Len(calls) : calls[i].rule # r
                  /\ r = ri => pc \notin {"actions", "store"}
            /\ \A a \in 1..Len(rules[r].actions) :
                  NoLabelMove(rules[r].actions[a]) =>
                      \A i \in 1..Len(calls) : ~(calls[i].rule = r /\ calls[i].action = a)
            /\ Applied(r, FALSE) => \E a \in 1..Len(rules[r].actions) : MayFail(r, a)

\* the subject of message 1 contains "a": the rule with predicate "none" was
\* evaluated to False, the next rule skipped its move without label, made the
\* two calls of mark_as_read and was applied
C26_Witness ==
    /\ ProcessReturned /\ result = Ret(TRUE)
    /\ rules = <<R_none, R_nolabel>> /\ email = Message(1)
    /\ ConditionResults(R_none.conditions, email, now) = Ret(<<TRUE>>)
    /\ log[1] = Event("evaluate", 1, FALSE, email)
    /\ Applied(2, TRUE)
    /\ Len(calls) = 2 /\ calls[1].action = 2 /\ calls[2].action = 2

====
